---- MODULE Spec2Model ----
(***************************************************************************)
(* StaticGen (package ssg): the front-matter parser, the data and          *)
(* collection loaders, the plugin registry and hook dispatcher, and the    *)
(* build pipeline of build_core.py.                                        *)
(*                                                                         *)
(* Text is modelled as a sequence of one-character strings, so that        *)
(* startswith, split, strip and the JSON reader are computed on the        *)
(* characters as the Python code computes them.                            *)
(***************************************************************************)
EXTENDS Integers, Sequences, FiniteSets, TLC

(***************************************************************************)
(* Bounds of the model.                                                    *)
(***************************************************************************)
\* nesting depth of the JSON values put between the delimiters
MaxDepth == 1
\* members per generated JSON object, elements per generated JSON array
MaxKeys == 1
\* whitespace characters put before and after a generated body
MaxPad == 1

(***************************************************************************)
(* Python str operations on character sequences.                           *)
(***************************************************************************)
Delim == <<"+", "+", "+">>

\* str.isspace for the characters of the model
Whitespace == {" ", "\n"}

\* F applied to the value of x: x is evaluated once, however often F uses it
Bind(x, F(_)) == CHOOSE r \in {F(v) : v \in {x}} : TRUE

\* s[i:].startswith(p), 1-based
StartsWithAt(s, p, i) ==
    /\ i >= 1
    /\ i + Len(p) - 1 <= Len(s)
    /\ \A j \in 1..Len(p) : s[i + j - 1] = p[j]

StartsWith(s, p) == StartsWithAt(s, p, 1)

EndsWith(s, p) == Len(p) <= Len(s) /\ StartsWithAt(s, p, Len(s) - Len(p) + 1)

\* str.find(p, from): the first index >= from where p occurs, 0 when there is none
Find(s, p, from) ==
    Bind(s, LAMBDA t :
        IF \E i \in from..Len(t) : StartsWithAt(t, p, i)
        THEN CHOOSE i \in from..Len(t) :
                /\ StartsWithAt(t, p, i)
                /\ \A j \in from..(i - 1) : ~StartsWithAt(t, p, j)
        ELSE 0)

\* s[i:], 1-based
Tail_(s, i) == SubSeq(s, i, Len(s))

RECURSIVE Split(_, _, _)
\* str.split(sep, maxsplit): left to right, non-overlapping
Split(s, sep, maxsplit) ==
    Bind(Find(s, sep, 1), LAMBDA i :
        IF maxsplit = 0 \/ i = 0
        THEN <<s>>
        ELSE Bind(Tail_(s, i + Len(sep)), LAMBDA rest :
                 <<SubSeq(s, 1, i - 1)>> \o Split(rest, sep, maxsplit - 1)))

\* str.lstrip(chars)
LStrip(s, chars) ==
    Bind(s, LAMBDA t :
        IF \A i \in 1..Len(t) : t[i] \in chars
        THEN <<>>
        ELSE Tail_(t, CHOOSE i \in 1..Len(t) :
                          t[i] \notin chars /\ \A j \in 1..(i - 1) : t[j] \in chars))

\* str.rstrip(chars)
RStrip(s, chars) ==
    Bind(s, LAMBDA t :
        IF \A i \in 1..Len(t) : t[i] \in chars
        THEN <<>>
        ELSE SubSeq(t, 1, CHOOSE i \in 1..Len(t) :
                              t[i] \notin chars /\ \A j \in (i + 1)..Len(t) : t[j] \in chars))

\* str.strip()
Strip(s) == RStrip(LStrip(s, Whitespace), Whitespace)

(***************************************************************************)
(* JSON values.  Every value is a record [t, s, kids]: t is the type,      *)
(* s the characters of a string or number, kids the members of an object   *)
(* (in insertion order, as a Python dict keeps them) or the elements of    *)
(* an array (with empty keys).                                             *)
(***************************************************************************)
Val(t, s, kids) == [t |-> t, s |-> s, kids |-> kids]

EmptyDict == Val("obj", <<>>, <<>>)
JTrue == Val("true", <<>>, <<>>)
JFalse == Val("false", <<>>, <<>>)
JNull == Val("null", <<>>, <<>>)
JStr(s) == Val("str", s, <<>>)
JNum(s) == Val("num", s, <<>>)

Member(k, v) == [k |-> k, v |-> v]

IsDict(v) == v.t = "obj"

\* key in d
HasKey(d, k) == \E i \in 1..Len(d.kids) : d.kids[i].k = k

\* d[k] for a key that is present
Lookup(d, k) == d.kids[CHOOSE i \in 1..Len(d.kids) : d.kids[i].k = k].v

\* d.get(k): JNull stands for None
Get(d, k) == IF HasKey(d, k) THEN Lookup(d, k) ELSE JNull

\* d[k] = v on the member list of a dict: a repeated key keeps its place and
\* takes the later value
DictSet(kids, k, v) ==
    IF \E i \in 1..Len(kids) : kids[i].k = k
    THEN [i \in 1..Len(kids) |-> IF kids[i].k = k THEN Member(k, v) ELSE kids[i]]
    ELSE Append(kids, Member(k, v))

\* bool(v)
Truthy(v) ==
    CASE v.t = "obj" -> v.kids # <<>>
      [] v.t = "arr" -> v.kids # <<>>
      [] v.t = "str" -> v.s # <<>>
      [] v.t = "num" -> v.s \notin {<<"0">>, <<"-", "0">>}
      [] v.t = "true" -> TRUE
      [] v.t = "datetime" -> TRUE
      [] OTHER -> FALSE

(***************************************************************************)
(* json.loads: a recursive-descent reader of objects, arrays, strings      *)
(* without escapes, integers and the literals true, false and null.        *)
(***************************************************************************)
Digits == {"0", "1", "2", "3", "4", "5", "6", "7", "8", "9"}

ParseFail == [ok |-> FALSE, v |-> JNull, i |-> 0]
ParseOk(v, i) == [ok |-> TRUE, v |-> v, i |-> i]

\* the character at i, "" past the end
At(s, i) == IF i \in 1..Len(s) THEN s[i] ELSE ""

\* the first index from i on that holds no whitespace
SkipWs(s, i) ==
    IF \E j \in i..Len(s) : s[j] \notin Whitespace
    THEN CHOOSE j \in i..Len(s) :
            s[j] \notin Whitespace /\ \A k \in i..(j - 1) : s[k] \in Whitespace
    ELSE IF i > Len(s) THEN i ELSE Len(s) + 1

\* a string, i being the position after the opening quote: it ends at the
\* next quote, and holds no control character
ScanString(s, i) ==
    Bind(Find(s, <<"\"">>, i), LAMBDA close :
        IF close = 0 \/ \E j \in i..(close - 1) : s[j] = "\n"
        THEN ParseFail
        ELSE ParseOk(JStr(SubSeq(s, i, close - 1)), close + 1))

\* the first index from i on that holds no digit
ScanDigits(s, i) ==
    IF \E j \in i..Len(s) : s[j] \notin Digits
    THEN CHOOSE j \in i..Len(s) : s[j] \notin Digits /\ \A k \in i..(j - 1) : s[k] \in Digits
    ELSE IF i > Len(s) THEN i ELSE Len(s) + 1

ScanNumber(s, i) ==
    Bind(IF At(s, i) = "-" THEN i + 1 ELSE i, LAMBDA d :
        Bind(IF At(s, d) = "0" THEN d + 1 ELSE ScanDigits(s, d), LAMBDA e :
            IF e = d THEN ParseFail ELSE ParseOk(JNum(SubSeq(s, i, e - 1)), e)))

RECURSIVE ParseValue(_, _)
RECURSIVE ParseMembers(_, _, _)
RECURSIVE ParseElements(_, _, _)

\* the members of an object, at the opening quote of the next key
ParseMembers(s, at, members) ==
    Bind(at, LAMBDA i :
    Bind(members, LAMBDA acc :
        IF At(s, i) # "\""
        THEN ParseFail
        ELSE Bind(ScanString(s, i + 1), LAMBDA key :
            IF ~key.ok
            THEN ParseFail
            ELSE Bind(SkipWs(s, key.i), LAMBDA c :
                IF At(s, c) # ":"
                THEN ParseFail
                ELSE Bind(ParseValue(s, SkipWs(s, c + 1)), LAMBDA val :
                    IF ~val.ok
                    THEN ParseFail
                    ELSE Bind(SkipWs(s, val.i), LAMBDA e :
                         Bind(DictSet(acc, key.v.s, val.v), LAMBDA kids :
                            IF At(s, e) = "}"
                            THEN ParseOk(Val("obj", <<>>, kids), e + 1)
                            ELSE IF At(s, e) = ","
                                 THEN ParseMembers(s, SkipWs(s, e + 1), kids)
                                 ELSE ParseFail)))))))

\* the elements of an array, at the first character of the next element
ParseElements(s, at, elements) ==
    Bind(elements, LAMBDA acc :
    Bind(ParseValue(s, at), LAMBDA val :
        IF ~val.ok
        THEN ParseFail
        ELSE Bind(SkipWs(s, val.i), LAMBDA e :
             Bind(Append(acc, Member(<<>>, val.v)), LAMBDA kids :
                IF At(s, e) = "]"
                THEN ParseOk(Val("arr", <<>>, kids), e + 1)
                ELSE IF At(s, e) = ","
                     THEN ParseElements(s, SkipWs(s, e + 1), kids)
                     ELSE ParseFail))))

ParseValue(s, at) ==
    Bind(at, LAMBDA i :
    Bind(At(s, i), LAMBDA c :
        CASE c = "{" ->
               Bind(SkipWs(s, i + 1), LAMBDA j :
                   IF At(s, j) = "}" THEN ParseOk(EmptyDict, j + 1) ELSE ParseMembers(s, j, <<>>))
          [] c = "[" ->
               Bind(SkipWs(s, i + 1), LAMBDA j :
                   IF At(s, j) = "]"
                   THEN ParseOk(Val("arr", <<>>, <<>>), j + 1)
                   ELSE ParseElements(s, j, <<>>))
          [] c = "\"" -> ScanString(s, i + 1)
          [] c = "-" \/ c \in Digits -> ScanNumber(s, i)
          [] StartsWithAt(s, <<"t", "r", "u", "e">>, i) -> ParseOk(JTrue, i + 4)
          [] StartsWithAt(s, <<"f", "a", "l", "s", "e">>, i) -> ParseOk(JFalse, i + 5)
          [] StartsWithAt(s, <<"n", "u", "l", "l">>, i) -> ParseOk(JNull, i + 4)
          [] OTHER -> ParseFail))

\* json.loads(s): ok is FALSE where json.loads raises JSONDecodeError
JsonLoads(s) ==
    Bind(s, LAMBDA t :
    Bind(ParseValue(t, SkipWs(t, 1)), LAMBDA r :
        IF r.ok /\ SkipWs(t, r.i) = Len(t) + 1
        THEN [ok |-> TRUE, v |-> r.v]
        ELSE [ok |-> FALSE, v |-> JNull]))

RECURSIVE Dumps(_)
RECURSIVE DumpsKids(_, _)

\* the members or elements joined by ", ", members as "key": value
DumpsKids(kids, isObj) ==
    IF kids = <<>>
    THEN <<>>
    ELSE LET m == Head(kids)
             one == IF isObj
                    THEN <<"\"">> \o m.k \o <<"\"", ":", " ">> \o Dumps(m.v)
                    ELSE Dumps(m.v)
         IN  IF Len(kids) = 1
             THEN one
             ELSE one \o <<",", " ">> \o DumpsKids(Tail(kids), isObj)

\* json.dumps(v) with the default separators
Dumps(v) ==
    CASE v.t = "obj" -> <<"{">> \o DumpsKids(v.kids, TRUE) \o <<"}">>
      [] v.t = "arr" -> <<"[">> \o DumpsKids(v.kids, FALSE) \o <<"]">>
      [] v.t = "str" -> <<"\"">> \o v.s \o <<"\"">>
      [] v.t = "num" -> v.s
      [] v.t = "true" -> <<"t", "r", "u", "e">>
      [] v.t = "false" -> <<"f", "a", "l", "s", "e">>
      [] OTHER -> <<"n", "u", "l", "l">>

(***************************************************************************)
(* front_matter_parser.parse_front_matter                                  *)
(***************************************************************************)
FmResult(fm, body) == [fm |-> fm, body |-> body]

\* a variant that returns the rest of the text as it stands
ParseFrontMatterUntrimmed(content) ==
    Bind(content, LAMBDA text :
        IF StartsWith(text, Delim)
        THEN Bind(Split(text, Delim, 2), LAMBDA parts :
                 IF Len(parts) > 2
                 THEN Bind(JsonLoads(parts[2]), LAMBDA front_matter :
                          IF front_matter.ok
                          THEN FmResult(IF Truthy(front_matter.v)
                                        THEN front_matter.v
                                        ELSE EmptyDict,
                                        parts[3])
                          ELSE FmResult(EmptyDict, text))
                 ELSE FmResult(EmptyDict, text))
        ELSE FmResult(EmptyDict, text))

\* a variant that trims the text it hands back when the header does not parse
ParseFrontMatterTrimsOnFailure(content) ==
    Bind(content, LAMBDA text :
        IF StartsWith(text, Delim)
        THEN Bind(Split(text, Delim, 2), LAMBDA parts :
                 IF Len(parts) > 2
                 THEN Bind(JsonLoads(parts[2]), LAMBDA front_matter :
                          IF front_matter.ok
                          THEN FmResult(IF Truthy(front_matter.v)
                                        THEN front_matter.v
                                        ELSE EmptyDict,
                                        Strip(parts[3]))
                          ELSE FmResult(EmptyDict, Strip(text)))
                 ELSE FmResult(EmptyDict, Strip(text)))
        ELSE FmResult(EmptyDict, Strip(text)))

\* parse_front_matter(content): the pair (front_matter, body)
ParseFrontMatter(content) ==
    Bind(content, LAMBDA text :
        IF StartsWith(text, Delim)
        THEN Bind(Split(text, Delim, 2), LAMBDA parts :
                 IF Len(parts) > 2
                 THEN Bind(JsonLoads(parts[2]), LAMBDA front_matter :
                          IF front_matter.ok
                          THEN FmResult(IF Truthy(front_matter.v)
                                        THEN front_matter.v
                                        ELSE EmptyDict,
                                        Strip(parts[3]))
                          ELSE FmResult(EmptyDict, text))
                 ELSE FmResult(EmptyDict, text))
        ELSE FmResult(EmptyDict, text))

(***************************************************************************)
(* os.path on "/"-separated paths.                                         *)
(***************************************************************************)
Html == <<".", "h", "t", "m", "l">>
Py == <<".", "p", "y">>
JsonExt == <<".", "j", "s", "o", "n">>

\* the last index of character c in s, 0 when there is none
LastIndexOf(s, c) ==
    IF \E i \in 1..Len(s) : s[i] = c
    THEN CHOOSE i \in 1..Len(s) : s[i] = c /\ \A j \in (i + 1)..Len(s) : s[j] # c
    ELSE 0

\* os.path.join(a, b)
Join(a, b) ==
    IF b # <<>> /\ b[1] = "/"
    THEN b
    ELSE IF a = <<>> \/ a[Len(a)] = "/" THEN a \o b ELSE a \o <<"/">> \o b

\* os.path.basename(p)
Basename(p) == Tail_(p, LastIndexOf(p, "/") + 1)

\* os.path.relpath(p, start) for a path p below the directory start
Relpath(p, start) == Tail_(p, Len(start) + 2)

\* os.path.splitext(name): the extension starts at the last dot that is not
\* one of the dots the name begins with
Splitext(name) ==
    LET base == Basename(name)
        dot == LastIndexOf(base, ".")
        lead == Len(base) - Len(LStrip(base, {"."}))
        cut == Len(name) - Len(base) + dot
    IN  IF dot > lead
        THEN [name |-> SubSeq(name, 1, cut - 1), ext |-> Tail_(name, cut)]
        ELSE [name |-> name, ext |-> <<>>]

\* str.lower on the letters the model's file names use
LowerChar(c) ==
    CASE c = "J" -> "j" [] c = "S" -> "s" [] c = "O" -> "o" [] c = "N" -> "n"
      [] c = "U" -> "u" [] OTHER -> c

Lower(s) == [i \in 1..Len(s) |-> LowerChar(s[i])]

(***************************************************************************)
(* url_helpers.url                                                         *)
(***************************************************************************)
\* a url that keeps the leading slashes of the path
UrlKeepingSlashes(path, config) ==
    IF config.use_absolute_urls
    THEN config.base_url \o <<"/">> \o path
    ELSE <<"/">> \o path

\* url(path, config)
Url(path, config) ==
    IF config.use_absolute_urls
    THEN config.base_url \o <<"/">> \o LStrip(path, {"/"})
    ELSE <<"/">> \o LStrip(path, {"/"})

(***************************************************************************)
(* The configuration file, as load_config returns it.                      *)
(***************************************************************************)
PagesDir == <<"p", "g">>
TemplatesDir == <<"t", "p">>
StaticDir == <<"s", "t">>
AssetsDir == <<"a", "s">>
DataDir == <<"d", "t">>
OutputDir == <<"o", "u", "t">>
BaseUrl == <<"h", ":", "/", "/", "e">>

PluginsA == <<"p", "a">>
PluginsB == <<"p", "b">>
PluginsGone == <<"p", "x">>

PostsName == <<"p", "o", "s", "t", "s">>
NotesName == <<"n", "o", "t", "e", "s">>
PostsPath == <<"p", "o">>
NotesPath == <<"n", "t">>
PostsOutput == <<"b">>

\* one entry of config["collections"]: has_output tells whether the settings
\* carry an "output" key
CollectionSettings(name, path, has_output, output) ==
    [name |-> name, path |-> path, has_output |-> has_output, output |-> output]

PostsSettings == CollectionSettings(PostsName, PostsPath, TRUE, PostsOutput)
NotesSettings == CollectionSettings(NotesName, NotesPath, FALSE, <<>>)

\* config["collections"], in the order of the file: absent, the posts, or
\* the notes (configured without "output") followed by the posts
CollectionConfigs == {<<>>, <<PostsSettings>>, <<NotesSettings, PostsSettings>>}

\* config.get("plugins_dir"): <<>> stands for an absent key
PluginDirs == {<<>>, PluginsGone, PluginsA, PluginsB}

Config(plugins_dir, collections) ==
    [pages_dir |-> PagesDir, templates_dir |-> TemplatesDir, static_dir |-> StaticDir,
     assets_dir |-> AssetsDir, data_dir |-> DataDir, output_dir |-> OutputDir,
     base_url |-> BaseUrl, use_absolute_urls |-> FALSE,
     plugins_dir |-> plugins_dir, collections |-> collections]

Configs == {Config(d, c) : d \in PluginDirs, c \in CollectionConfigs}

NoConfig == Config(<<>>, <<>>)

(***************************************************************************)
(* plugin_system: the plugins directories, the global PLUGINS list,        *)
(* load_plugins and run_hook.                                              *)
(***************************************************************************)
HookNames ==
    {"before_build", "after_build", "before_render_page", "after_render_page",
     "before_copy_static", "after_copy_static", "before_copy_assets", "after_copy_assets",
     "before_generate_sitemap", "after_generate_sitemap",
     "before_generate_rss_feed", "after_generate_rss_feed"}

\* os.path.exists(plugins_dir)
PluginDirExists(dir) == dir \in {PluginsA, PluginsB}

\* os.listdir(plugins_dir)
ListPluginDir(dir) ==
    IF dir = PluginsA
    THEN << <<"_", "_", "i">> \o Py, <<"x">> \o Py, <<"p">> \o Py, <<"q">> \o Py,
            <<"r", ".", "t", "x", "t">> >>
    ELSE << <<"q">> \o Py, <<"z">> \o Py >>

\* a module object: its __name__, and the directory its __file__ is in
Module(name, dir) == [name |-> name, dir |-> dir]

\* whether the code of module_name in dir raises while it is imported
ImportRaises(module_name, dir) == module_name = <<"x">>

\* getattr(plugin, hook_name): "function", "value" (an attribute that is not
\* callable) or "absent"
HookAttr(plugin, hook_name) ==
    CASE plugin.name = <<"p">> ->
            IF hook_name \in {"before_build", "before_render_page", "after_render_page"}
            THEN "function"
            ELSE IF hook_name = "after_build" THEN "value" ELSE "absent"
      [] plugin.name = <<"q">> -> "function"
      [] plugin.name = <<"z">> -> IF hook_name = "after_build" THEN "function" ELSE "absent"
      [] OTHER -> "absent"

\* whether the plugin's hook function raises an Exception when called
HookRaises(plugin, hook_name) ==
    \/ plugin.name = <<"p">> /\ hook_name \in {"before_build", "after_render_page"}
    \/ plugin.name = <<"z">> /\ hook_name = "after_build"

\* __import__(module_name) with dir at the head of sys.path: a module that
\* sys.modules holds is returned as it is; one that raises is not kept
Import(module_name, dir, modules) ==
    IF \E m \in modules : m.name = module_name
    THEN [ok |-> TRUE, module |-> CHOOSE m \in modules : m.name = module_name,
          sys_modules |-> modules]
    ELSE IF ImportRaises(module_name, dir)
         THEN [ok |-> FALSE, module |-> Module(module_name, dir), sys_modules |-> modules]
         ELSE [ok |-> TRUE, module |-> Module(module_name, dir),
               sys_modules |-> modules \cup {Module(module_name, dir)}]

RECURSIVE ImportAll(_, _, _)
\* the loop of load_plugins over os.listdir: acc holds the list and sys.modules
ImportAll(files, dir, acc) ==
    IF files = <<>>
    THEN acc
    ELSE LET file_name == Head(files)
             module_name == SubSeq(file_name, 1, Len(file_name) - 3)
         IN  IF EndsWith(file_name, Py) /\ ~StartsWith(file_name, <<"_", "_">>)
             THEN Bind(Import(module_name, dir, acc.sys_modules), LAMBDA r :
                      ImportAll(Tail(files), dir,
                                [plugins |-> IF r.ok
                                             THEN Append(acc.plugins, r.module)
                                             ELSE acc.plugins,
                                 sys_modules |-> r.sys_modules]))
             ELSE ImportAll(Tail(files), dir, acc)

\* a load_plugins without PLUGINS.clear(): the plugins of the build before stay
LoadPluginsKeepingOld(config, registry, modules) ==
    IF config.plugins_dir = <<>> \/ ~PluginDirExists(config.plugins_dir)
    THEN [plugins |-> registry, sys_modules |-> modules]
    ELSE ImportAll(ListPluginDir(config.plugins_dir), config.plugins_dir,
                   [plugins |-> registry, sys_modules |-> modules])

\* load_plugins(config): the new values of PLUGINS and sys.modules, registry
\* and modules being the old
LoadPlugins(config, registry, modules) ==
    LET cleared == <<>>
    IN  IF config.plugins_dir = <<>> \/ ~PluginDirExists(config.plugins_dir)
        THEN [plugins |-> cleared, sys_modules |-> modules]
        ELSE ImportAll(ListPluginDir(config.plugins_dir), config.plugins_dir,
                       [plugins |-> cleared, sys_modules |-> modules])

HookRun(plugin, raised) == [plugin |-> plugin, raised |-> raised]

RECURSIVE RunHookLetsItRaise(_, _)
\* a variant without the try/except around the call
RunHookLetsItRaise(registry, hook_name) ==
    IF registry = <<>>
    THEN [ran |-> <<>>, propagated |-> FALSE]
    ELSE LET plugin == Head(registry)
         IN  IF HookAttr(plugin, hook_name) = "function"
             THEN IF HookRaises(plugin, hook_name)
                  THEN [ran |-> <<HookRun(plugin, TRUE)>>, propagated |-> TRUE]
                  ELSE LET rest == RunHookLetsItRaise(Tail(registry), hook_name)
                       IN  [ran |-> <<HookRun(plugin, FALSE)>> \o rest.ran,
                            propagated |-> rest.propagated]
             ELSE RunHookLetsItRaise(Tail(registry), hook_name)

RECURSIVE RunHook(_, _)
\* run_hook(hook_name, ...) over the list registry: the calls made, in order,
\* and whether an exception leaves run_hook
RunHook(registry, hook_name) ==
    IF registry = <<>>
    THEN [ran |-> <<>>, propagated |-> FALSE]
    ELSE LET plugin == Head(registry)
             rest == RunHook(Tail(registry), hook_name)
         IN  IF HookAttr(plugin, hook_name) = "function"
             THEN [ran |-> <<HookRun(plugin, HookRaises(plugin, hook_name))>> \o rest.ran,
                   propagated |-> rest.propagated]
             ELSE rest

\* one call of run_hook as the build records it
HookCall(registry, hook_name, page_path, output_path) ==
    LET r == RunHook(registry, hook_name)
    IN  [name |-> hook_name, page_path |-> page_path, output_path |-> output_path,
         ran |-> r.ran, propagated |-> r.propagated]

(***************************************************************************)
(* The source tree a build reads.  The directories and file names are      *)
(* fixed; what the files hold, and what the template engine makes of a     *)
(* page body or a layout, varies from build to build.                      *)
(***************************************************************************)
\* at most this many files or templates of one build differ from the default
MaxFaults == 1

File(root, name) == [root |-> root, name |-> name]

\* os.walk(pages_dir), one entry per file
PageWalk ==
    << File(PagesDir, <<"i">> \o Html),
       File(PagesDir, <<"n", ".", "t", "x", "t">>),
       File(Join(PagesDir, <<"s">>), <<"a">> \o Html) >>

\* os.walk(path) of a collection, one entry per file
CollectionWalk(path) ==
    IF path = PostsPath
    THEN << File(PostsPath, <<"a">> \o Html),
            File(PostsPath, <<"r", ".", "m", "d">>),
            File(Join(PostsPath, <<"s">>), <<"a">> \o Html) >>
    ELSE IF path = NotesPath
         THEN << File(NotesPath, <<"n">> \o Html) >>
         ELSE <<>>

\* os.walk(data_dir), one entry per file
DataWalk ==
    << File(DataDir, <<"a">> \o JsonExt),
       File(DataDir, <<"n", ".", "t", "x", "t">>),
       File(DataDir, <<"U", ".", "J", "S", "O", "N">>),
       File(Join(DataDir, <<"s">>), <<"a">> \o JsonExt),
       File(Join(DataDir, <<"s", "/", "t">>), <<"c">> \o JsonExt) >>

FilePath(f) == Join(f.root, f.name)

SeqRange(q) == {q[i] : i \in 1..Len(q)}

PagePaths == {FilePath(f) : f \in {g \in SeqRange(PageWalk) : EndsWith(g.name, Html)}}

ItemPaths ==
    {FilePath(f) : f \in {g \in SeqRange(CollectionWalk(PostsPath))
                                    \cup SeqRange(CollectionWalk(NotesPath)) :
                             EndsWith(g.name, Html)}}

DataPaths == {FilePath(f) : f \in SeqRange(DataWalk)}

\* the name of the JSON asset the front matter refers to
AssetName == <<"d">> \o JsonExt

\* what open() gives for a file that cannot be read, or is not there
Unreadable == <<"EACCES">>
Absent == <<"ENOENT">>

KLayout == <<"l", "a", "y", "o", "u", "t">>
KDate == <<"d", "a", "t", "e">>
KDataFile == <<"d", "a", "t", "a", "_", "f", "i", "l", "e">>
KDataFiles == KDataFile \o <<"s">>
KDateObj == <<"_", "d", "a", "t", "e", "_", "o", "b", "j">>
KTitle == <<"t", "i", "t", "l", "e">>
KDescription == <<"d", "e", "s", "c", "r", "i", "p", "t", "i", "o", "n">>

LayoutName == <<"l">> \o Html
OtherLayoutName == <<"m">> \o Html

Obj(kids) == Val("obj", <<>>, kids)
Arr(elems) == Val("arr", <<>>, [i \in 1..Len(elems) |-> Member(<<>>, elems[i])])

\* a content file: delimiter, header, delimiter, newline, body
FmText(v, body) == Delim \o Dumps(v) \o Delim \o <<"\n">> \o body

Date0101 == <<"2", "0", "2", "4", "-", "0", "1", "-", "0", "1">>
Date0301 == <<"2", "0", "2", "4", "-", "0", "3", "-", "0", "1">>
DateLoose == <<"2", "0", "2", "4", "-", "1", "-", "5">>
DateBad == <<"s", "o", "o", "n">>

\* the texts a page may hold besides its default
PageTexts ==
    { FmText(JNum(<<"5">>), <<"x">>),
      FmText(Obj(<<Member(KDataFile, JStr(AssetName))>>), <<"x">>),
      FmText(Obj(<<Member(KDataFile, JNum(<<"1">>))>>), <<"x">>),
      FmText(Obj(<<Member(KDataFiles, Arr(<<JStr(AssetName)>>))>>), <<"x">>) }

\* the texts a collection item may hold besides its default
ItemTexts ==
    { <<"x">>,
      FmText(Obj(<<Member(KLayout, JStr(<<>>))>>), <<"x">>),
      FmText(Obj(<<Member(KLayout, JStr(OtherLayoutName))>>), <<"x">>),
      FmText(Arr(<<JNum(<<"1">>)>>), <<"x">>),
      FmText(Obj(<<Member(KLayout, JStr(LayoutName)), Member(KDate, JStr(DateBad))>>),
             <<"x">>) }

DefaultText(path) ==
    IF path \in PagePaths
    THEN <<"{", "{", "x", "}", "}">>
    ELSE FmText(Obj(<<Member(KLayout, JStr(LayoutName)),
                      Member(KDate, JStr(IF path = Join(PostsPath, <<"a">> \o Html)
                                         THEN Date0101 ELSE Date0301))>>),
                <<"y">>)

\* what the JSON asset and a data file may hold
JsonTexts == {Dumps(Obj(<<Member(<<"k">>, JNum(<<"1">>))>>)), Dumps(Arr(<<JNum(<<"1">>)>>)), <<"{">>}

DefaultJson == Dumps(Obj(<<Member(<<"k">>, JNum(<<"1">>))>>))

\* one difference from the default tree: slot names what differs
Edit(slot, file, value) == [slot |-> slot, file |-> file, value |-> value]

\* the files and templates a build may find different: the page the walk
\* visits last, the template of the page it visits first, the first post,
\* the note, the layout, the asset, a data file and the two directories
EditedPage == Join(Join(PagesDir, <<"s">>), <<"a">> \o Html)
EditedTemplate == Join(PagesDir, <<"i">> \o Html)
EditedPost == Join(PostsPath, <<"a">> \o Html)
EditedNote == Join(NotesPath, <<"n">> \o Html)

Edits ==
    {Edit("text", EditedPage, t) : t \in PageTexts \cup {Unreadable}}
    \cup {Edit("text", EditedPost, t) : t \in ItemTexts \cup {Unreadable}}
    \cup {Edit("text", EditedNote, <<"x">>)}
    \cup {Edit("tmpl", EditedTemplate, t) : t \in {<<"syntax_error">>, <<"render_error">>}}
    \cup {Edit("layout", LayoutName, <<"render_error">>)}
    \cup {Edit("asset", AssetName, t) : t \in {Absent, Dumps(Arr(<<JNum(<<"1">>)>>))}}
    \cup {Edit("data", Join(DataDir, <<"a">> \o JsonExt), <<"{">>)}
    \cup {Edit("dir", d, Absent) : d \in {StaticDir, AssetsDir}}

RECURSIVE EditSets(_)
\* the sets of at most n edits, no two of them of the same slot and file
EditSets(n) ==
    IF n = 0
    THEN {{}}
    ELSE LET fewer == EditSets(n - 1)
         IN  fewer \cup
             {t[1] \cup {t[2]} :
                 t \in {u \in fewer \X Edits :
                           \A e \in u[1] : e.slot # u[2].slot \/ e.file # u[2].file}}

\* the value of a slot under a set of edits
Edited(edits, slot, file, default) ==
    IF \E e \in edits : e.slot = slot /\ e.file = file
    THEN (CHOOSE e \in edits : e.slot = slot /\ e.file = file).value
    ELSE default

\* the tree: text of each content file, the engine's verdict on each page
\* body and on the layout, the JSON asset, the data files, and whether the
\* static and assets directories exist
Tree(edits) ==
    [text |-> [f \in PagePaths \cup ItemPaths |-> Edited(edits, "text", f, DefaultText(f))],
     tmpl |-> [f \in PagePaths |-> Edited(edits, "tmpl", f, <<"ok">>)],
     layout |-> Edited(edits, "layout", LayoutName, <<"ok">>),
     asset |-> Edited(edits, "asset", AssetName, DefaultJson),
     data |-> [f \in DataPaths |-> Edited(edits, "data", f, DefaultJson)],
     dirs |-> [d \in {StaticDir, AssetsDir} |-> Edited(edits, "dir", d, <<"ok">>)]]

Trees == {Tree(e) : e \in EditSets(MaxFaults)}

\* the tree no build has read yet
DefaultTree == Tree({})

(***************************************************************************)
(* data_collections_loader.load_data_files                                 *)
(***************************************************************************)
RECURSIVE SetPath(_, _, _)
\* walks keys[:-1] with setdefault(key, {}) and assigns value at keys[-1]
SetPath(node, keys, value) ==
    IF Len(keys) = 1
    THEN Obj(DictSet(node.kids, keys[1], value))
    ELSE LET child == IF HasKey(node, keys[1]) THEN Lookup(node, keys[1]) ELSE EmptyDict
         IN  Obj(DictSet(node.kids, keys[1], SetPath(child, Tail(keys), value)))

\* the keys under which load_data_files stores a file: the file name
\* without its extension, split at os.sep
DataKeys(file) == Split(Splitext(file.name).name, <<"/">>, -1)

RECURSIVE LoadDataWalk(_, _, _)
\* the loop of load_data_files over os.walk
LoadDataWalk(files, tree, data) ==
    IF files = <<>>
    THEN data
    ELSE LET file == Head(files)
             text == tree.data[FilePath(file)]
             loaded == JsonLoads(text)
         IN  IF text # Absent /\ Lower(Splitext(file.name).ext) = JsonExt /\ loaded.ok
             THEN LoadDataWalk(Tail(files), tree, SetPath(data, DataKeys(file), loaded.v))
             ELSE LoadDataWalk(Tail(files), tree, data)

\* load_data_files(config) on the tree: the site data
LoadDataFiles(config, tree) ==
    IF config.data_dir = <<>> \/ \A f \in DataPaths : tree.data[f] = Absent
    THEN EmptyDict
    ELSE LoadDataWalk(DataWalk, tree, EmptyDict)

(***************************************************************************)
(* data_collections_loader.load_collections                                *)
(***************************************************************************)
NoError == [kind |-> "none", at |-> <<>>]
Err(kind, at) == [kind |-> kind, at |-> at]

\* os.path.exists(collection_path)
CollectionPathExists(path) == path \in {PostsPath, NotesPath}

RECURSIVE LoadItems(_, _, _, _, _)
\* the loop over the files of one collection: the items read, and the error
\* that left the loop, if any
LoadItems(files, settings, config, tree, items) ==
    IF files = <<>>
    THEN [err |-> NoError, items |-> items]
    ELSE LET file == Head(files)
             file_path == FilePath(file)
         IN  IF ~EndsWith(file.name, Html)
             THEN LoadItems(Tail(files), settings, config, tree, items)
             ELSE IF tree.text[file_path] = Unreadable
                  THEN [err |-> Err("OSError", file_path), items |-> items]
                  ELSE LET parsed == ParseFrontMatter(tree.text[file_path])
                           relative_path == Relpath(file_path, settings.path)
                           output_dir_name == IF settings.has_output
                                              THEN settings.output
                                              ELSE settings.name
                           item_output_path == Join(output_dir_name, relative_path)
                           item == [path |-> file_path,
                                    relative_path |-> relative_path,
                                    output_path_relative |-> item_output_path,
                                    front_matter |-> parsed.fm,
                                    content |-> parsed.body,
                                    url |-> Url(item_output_path, config)]
                       IN  LoadItems(Tail(files), settings, config, tree, Append(items, item))

RECURSIVE LoadCollectionsFrom(_, _, _, _)
\* the loop of load_collections over config["collections"]
LoadCollectionsFrom(todo, config, tree, data) ==
    IF todo = <<>>
    THEN [err |-> NoError, data |-> data]
    ELSE LET settings == Head(todo)
         IN  IF settings.path = <<>> \/ ~CollectionPathExists(settings.path)
             THEN LoadCollectionsFrom(Tail(todo), config, tree, data)
             ELSE LET r == LoadItems(CollectionWalk(settings.path), settings, config, tree, <<>>)
                  IN  IF r.err # NoError
                      THEN [err |-> r.err, data |-> data]
                      ELSE LoadCollectionsFrom(Tail(todo), config, tree,
                               Append(data, [name |-> settings.name, items |-> r.items]))

\* load_collections(config): collections_data as the list of its entries
LoadCollections(config, tree) == LoadCollectionsFrom(config.collections, config, tree, <<>>)

\* collections_data.get(name, [])
CollectionItems(collections_data, name) ==
    IF \E i \in 1..Len(collections_data) : collections_data[i].name = name
    THEN collections_data[CHOOSE i \in 1..Len(collections_data) :
                              collections_data[i].name = name].items
    ELSE <<>>

(***************************************************************************)
(* build_core: page data from the assets, rendering, the artifacts.        *)
(***************************************************************************)
\* _load_json_file_from_assets(path, config) for a path that is a str
LoadJsonFileFromAssets(path, config, tree) ==
    LET full_path == Join(config.assets_dir, LStrip(path, {"/"}))
        loaded == JsonLoads(tree.asset)
    IN  IF full_path # Join(AssetsDir, AssetName) \/ tree.asset = Absent
           \/ tree.dirs[AssetsDir] = Absent
        THEN EmptyDict
        ELSE IF loaded.ok THEN loaded.v ELSE EmptyDict

\* key in front_matter, by the type of front_matter: "yes", "no", or
\* "TypeError" where the operand is not iterable
Contains(fm, key) ==
    CASE fm.t = "obj" -> IF HasKey(fm, key) THEN "yes" ELSE "no"
      [] fm.t = "arr" -> IF \E i \in 1..Len(fm.kids) : fm.kids[i].v = JStr(key)
                         THEN "yes" ELSE "no"
      [] fm.t = "str" -> IF Find(fm.s, key, 1) # 0 THEN "yes" ELSE "no"
      [] OTHER -> "TypeError"

\* whether dict.update(v) accepts v: a mapping, or a sequence of pairs
Updatable(v) ==
    CASE v.t = "obj" -> TRUE
      [] v.t = "arr" ->
            \A i \in 1..Len(v.kids) :
                \/ v.kids[i].v.t = "arr" /\ Len(v.kids[i].v.kids) = 2
                      /\ v.kids[i].v.kids[1].v.t \notin {"obj", "arr"}
                \/ v.kids[i].v.t = "str" /\ Len(v.kids[i].v.s) = 2
      [] v.t = "str" -> v.s = <<>>
      [] OTHER -> FALSE

RECURSIVE MergeDataFiles(_, _, _, _)
\* the loop over front_matter["data_files"]
MergeDataFiles(paths, config, tree, acc) ==
    IF paths = <<>>
    THEN acc
    ELSE LET df_path == Head(paths).v
         IN  IF df_path.t # "str"
             THEN [acc EXCEPT !.err = "AttributeError"]
             ELSE LET loaded == LoadJsonFileFromAssets(df_path.s, config, tree)
                  IN  IF ~Updatable(loaded)
                      THEN [acc EXCEPT !.err = "TypeError"]
                      ELSE MergeDataFiles(Tail(paths), config, tree,
                               [acc EXCEPT !.data = Append(@, loaded),
                                           !.urls = Append(@, Url(df_path.s, config))])

\* the data_file / data_files branch of render_all_content: the page data
\* (the values loaded, in order), the URLs, and the exception raised, if any
PageData(fm, config, tree) ==
    LET none == [err |-> "none", data |-> <<>>, urls |-> <<>>]
        has_file == Contains(fm, KDataFile)
        has_files == Contains(fm, KDataFiles)
    IN  IF has_file = "TypeError"
        THEN [none EXCEPT !.err = "TypeError"]
        ELSE IF has_file = "yes"
             THEN IF ~IsDict(fm)
                  THEN [none EXCEPT !.err = "TypeError"]
                  ELSE IF Lookup(fm, KDataFile).t # "str"
                       THEN [none EXCEPT !.err = "AttributeError"]
                       ELSE [none EXCEPT
                               !.data = <<LoadJsonFileFromAssets(Lookup(fm, KDataFile).s,
                                                                 config, tree)>>,
                               !.urls = <<Url(Lookup(fm, KDataFile).s, config)>>]
             ELSE IF has_files = "yes"
                  THEN IF ~IsDict(fm)
                       THEN [none EXCEPT !.err = "TypeError"]
                       ELSE IF Lookup(fm, KDataFiles).t = "arr"
                            THEN MergeDataFiles(Lookup(fm, KDataFiles).kids, config, tree, none)
                            ELSE none
                  ELSE none

\* a file of the output directory: its path, the source it was made from,
\* and the page data it was rendered with
OutFile(path, src, data) == [path |-> path, src |-> src, data |-> data]

\* open(path, 'w') and write: a file of that path is replaced
WriteFile(output, file) == {e \in output : e.path # file.path} \cup {file}

\* the record _render_and_save_output returns
PageInfo(config, source_path, output_path, front_matter, content) ==
    [source_path |-> source_path,
     output_path |-> output_path,
     url |-> Url(Relpath(output_path, config.output_dir), config),
     front_matter |-> front_matter,
     content |-> content]

\* the state a build stage works on: the hook calls so far, the output
\* directory, rendered_pages_info, and the exception that left the stage
Stage(calls, output, info) == [calls |-> calls, output |-> output, info |-> info, err |-> NoError]

\* run_hook at a point of a stage
WithHook(st, registry, hook_name, page_path, output_path) ==
    LET call == HookCall(registry, hook_name, page_path, output_path)
    IN  [st EXCEPT !.calls = Append(@, call),
                   !.err = IF call.propagated THEN Err("hook", page_path) ELSE @]

\* a pages loop that keeps what a failed render left: the record is appended
\* and the file written although template.render raised
RenderPageRecordingFailure(config, tree, registry, file, st) ==
    LET page_source_path == FilePath(file)
        output_path == Join(config.output_dir, Relpath(page_source_path, config.pages_dir))
        before == WithHook(st, registry, "before_render_page", page_source_path, <<>>)
        parsed == ParseFrontMatter(tree.text[page_source_path])
        page == PageData(parsed.fm, config, tree)
        rendered == [before EXCEPT
                        !.output = WriteFile(@, OutFile(output_path, page_source_path, page.data)),
                        !.info = Append(@, PageInfo(config, page_source_path, output_path,
                                                    parsed.fm, parsed.body))]
    IN  IF ~EndsWith(file.name, Html)
        THEN st
        ELSE IF before.err # NoError
        THEN before
        ELSE IF tree.text[page_source_path] = Unreadable
        THEN [before EXCEPT !.err = Err("OSError", page_source_path)]
        ELSE IF page.err # "none"
        THEN [before EXCEPT !.err = Err(page.err, page_source_path)]
        ELSE IF tree.tmpl[page_source_path] = <<"syntax_error">>
        THEN before
        ELSE WithHook(rendered, registry, "after_render_page", page_source_path, output_path)

\* one round of the pages loop of render_all_content
RenderPage(config, tree, registry, file, st) ==
    LET page_source_path == FilePath(file)
        output_relative_path == Relpath(page_source_path, config.pages_dir)
        output_path == Join(config.output_dir, output_relative_path)
        before == WithHook(st, registry, "before_render_page", page_source_path, <<>>)
        parsed == ParseFrontMatter(tree.text[page_source_path])
        page == PageData(parsed.fm, config, tree)
        rendered == [before EXCEPT
                        !.output = WriteFile(@, OutFile(output_path, page_source_path, page.data)),
                        !.info = Append(@, PageInfo(config, page_source_path, output_path,
                                                    parsed.fm, parsed.body))]
    IN  IF ~EndsWith(file.name, Html)
        THEN st
        ELSE IF before.err # NoError
        THEN before
        ELSE IF tree.text[page_source_path] = Unreadable
        THEN [before EXCEPT !.err = Err("OSError", page_source_path)]
        ELSE IF page.err # "none"
        THEN [before EXCEPT !.err = Err(page.err, page_source_path)]
        ELSE IF tree.tmpl[page_source_path] = <<"syntax_error">>
        THEN before
        ELSE WithHook(IF tree.tmpl[page_source_path] = <<"ok">> THEN rendered ELSE before,
                      registry, "after_render_page", page_source_path, output_path)

\* config["collections"][collection_name]
SettingsOf(config, name) ==
    config.collections[CHOOSE i \in 1..Len(config.collections) :
                           config.collections[i].name = name]

\* env.get_template(layout_name): the templates directory holds one layout
LayoutLoads(layout_name) == layout_name.t = "str" /\ layout_name.s = LayoutName

\* one round of the collection items loop of render_all_content
RenderItem(config, tree, registry, collection_name, item, st) ==
    LET page_source_path == item.path
        settings == SettingsOf(config, collection_name)
        output_relative_path == Join(settings.output, Basename(page_source_path))
        output_path == Join(config.output_dir, output_relative_path)
        before == WithHook(st, registry, "before_render_page", page_source_path, <<>>)
        layout_name == Get(item.front_matter, KLayout)
        page == PageData(item.front_matter, config, tree)
        rendered == [before EXCEPT
                        !.output = WriteFile(@, OutFile(output_path, page_source_path, page.data)),
                        !.info = Append(@, PageInfo(config, page_source_path, output_path,
                                                    item.front_matter, item.content))]
    IN  IF ~settings.has_output
        THEN [st EXCEPT !.err = Err("KeyError", page_source_path)]
        ELSE IF before.err # NoError
        THEN before
        ELSE IF ~IsDict(item.front_matter)
        THEN [before EXCEPT !.err = Err("AttributeError", page_source_path)]
        ELSE IF ~Truthy(layout_name)
        THEN before
        ELSE IF page.err # "none"
        THEN [before EXCEPT !.err = Err(page.err, page_source_path)]
        ELSE IF ~LayoutLoads(layout_name)
        THEN before
        ELSE WithHook(IF tree.layout = <<"ok">> THEN rendered ELSE before,
                      registry, "after_render_page", page_source_path, output_path)

\* the (collection, item) pairs in the order the items loop visits them
RECURSIVE ItemQueue(_)
ItemQueue(collections_data) ==
    IF collections_data = <<>>
    THEN <<>>
    ELSE [i \in 1..Len(Head(collections_data).items) |->
             [collection |-> Head(collections_data).name,
              item |-> Head(collections_data).items[i]]]
         \o ItemQueue(Tail(collections_data))

RECURSIVE RenderPages(_, _, _, _, _)
\* the pages loop of render_all_content, until an exception leaves it
RenderPages(files, config, tree, registry, stage) ==
    Bind(stage, LAMBDA st :
        IF files = <<>> \/ st.err # NoError
        THEN st
        ELSE RenderPages(Tail(files), config, tree, registry,
                         RenderPage(config, tree, registry, Head(files), st)))

RECURSIVE RenderItems(_, _, _, _, _)
\* the collection items loops of render_all_content
RenderItems(queue, config, tree, registry, stage) ==
    Bind(stage, LAMBDA st :
        IF queue = <<>> \/ st.err # NoError
        THEN st
        ELSE RenderItems(Tail(queue), config, tree, registry,
                         RenderItem(config, tree, registry, Head(queue).collection,
                                    Head(queue).item, st)))

\* render_all_content(config, site_data, collections_data) on an empty
\* output directory
RenderAllContent(config, tree, registry, collections_data) ==
    RenderItems(ItemQueue(collections_data), config, tree, registry,
                RenderPages(PageWalk, config, tree, registry, Stage(<<>>, {}, <<>>)))

\* the files of static_dir, relative to it
StaticFiles == << <<"c", ".", "c", "s", "s">> >>

\* copy_static(config)
CopyStatic(config, tree, registry, st) ==
    LET before == WithHook(st, registry, "before_copy_static", <<>>, <<>>)
        target == Join(config.output_dir, <<"s", "t", "a", "t", "i", "c">>)
        copied == [before EXCEPT
                      !.output = @ \cup {OutFile(Join(target, StaticFiles[i]),
                                                 Join(config.static_dir, StaticFiles[i]), <<>>) :
                                            i \in 1..Len(StaticFiles)}]
    IN  IF before.err # NoError
        THEN before
        ELSE WithHook(IF tree.dirs[config.static_dir] # Absent THEN copied ELSE before,
                      registry, "after_copy_static", <<>>, <<>>)

\* copy_assets(config): the assets go to the root of the output directory
CopyAssets(config, tree, registry, st) ==
    LET before == WithHook(st, registry, "before_copy_assets", <<>>, <<>>)
        copied == [before EXCEPT
                      !.output = IF tree.asset = Absent
                                 THEN @
                                 ELSE WriteFile(@, OutFile(Join(config.output_dir, AssetName),
                                                           Join(config.assets_dir, AssetName),
                                                           <<>>))]
    IN  IF before.err # NoError
        THEN before
        ELSE WithHook(IF tree.dirs[config.assets_dir] # Absent THEN copied ELSE before,
                      registry, "after_copy_assets", <<>>, <<>>)

SitemapPath(config) == Join(config.output_dir, <<"s", "i", "t", "e", "m", "a", "p", ".", "x", "m", "l">>)
FeedPath(config) == Join(config.output_dir, <<"f", "e", "e", "d", ".", "x", "m", "l">>)

\* generate_sitemap(config, rendered_pages_info): the stage, and the locs
GenerateSitemap(config, registry, st) ==
    LET before == WithHook(st, registry, "before_generate_sitemap", <<>>, <<>>)
        sitemap_path == SitemapPath(config)
        written == [before EXCEPT
                       !.output = WriteFile(@, OutFile(sitemap_path, sitemap_path, <<>>))]
    IN  IF before.err # NoError
        THEN [st |-> before, locs |-> <<>>]
        ELSE [st |-> WithHook(written, registry, "after_generate_sitemap", <<>>, sitemap_path),
              locs |-> [i \in 1..Len(st.info) |-> st.info[i].url]]

(***************************************************************************)
(* generate_rss_feed: datetime.strptime(date_str, "%Y-%m-%d"), the sort,   *)
(* the items.                                                              *)
(***************************************************************************)
\* the posts the feed takes
FeedLimit == 10
\* the characters of the body a description takes
DescriptionLimit == 200

DigitSeq == <<"0", "1", "2", "3", "4", "5", "6", "7", "8", "9">>
DigitVal(c) == (CHOOSE i \in 1..Len(DigitSeq) : DigitSeq[i] = c) - 1

AllDigits(s) == \A i \in 1..Len(s) : s[i] \in Digits

RECURSIVE NumberOf(_)
NumberOf(s) == IF s = <<>> THEN 0 ELSE NumberOf(SubSeq(s, 1, Len(s) - 1)) * 10 + DigitVal(s[Len(s)])

\* %m: 1[0-2] | 0[1-9] | [1-9]
MatchesMonth(s) ==
    /\ Len(s) \in {1, 2} /\ AllDigits(s)
    /\ NumberOf(s) \in 1..12

\* %d: 3[01] | [12]\d | 0[1-9] | [1-9] | " "[1-9]
MatchesDay(s) ==
    \/ Len(s) \in {1, 2} /\ AllDigits(s) /\ NumberOf(s) \in 1..31
    \/ Len(s) = 2 /\ s[1] = " " /\ s[2] \in Digits \ {"0"}

DaysIn(y, m) ==
    IF m = 2
    THEN IF (y % 4 = 0 /\ y % 100 # 0) \/ y % 400 = 0 THEN 29 ELSE 28
    ELSE IF m \in {4, 6, 9, 11} THEN 30 ELSE 31

DigitOf(n) == DigitSeq[(n % 10) + 1]

\* a datetime at midnight, kept as the eight digits of year, month and day
DateTime(y, m, d) ==
    Val("datetime",
        <<DigitOf(y \div 1000), DigitOf(y \div 100), DigitOf(y \div 10), DigitOf(y),
          DigitOf(m \div 10), DigitOf(m), DigitOf(d \div 10), DigitOf(d)>>,
        <<>>)

\* the order of datetimes
DateOrdinal(v) == NumberOf(v.s)

\* datetime.datetime.min
DateTimeMin == DateTime(1, 1, 1)

\* strptime(s, "%Y-%m-%d"): ok is FALSE where it raises ValueError
Strptime(s) ==
    LET parts == Split(s, <<"-">>, -1)
        y == NumberOf(parts[1])
        m == NumberOf(parts[2])
        d == NumberOf(LStrip(parts[3], {" "}))
    IN  IF /\ Len(parts) = 3
           /\ Len(parts[1]) = 4 /\ AllDigits(parts[1])
           /\ MatchesMonth(parts[2])
           /\ MatchesDay(parts[3])
           /\ y >= 1
           /\ d <= DaysIn(y, m)
        THEN [ok |-> TRUE, v |-> DateTime(y, m, d)]
        ELSE [ok |-> FALSE, v |-> DateTimeMin]

\* the first loop of generate_rss_feed: a post whose date is a non-empty
\* str gets front_matter['_date_obj']
WithDateObj(post) ==
    LET date_str == Get(post.front_matter, KDate)
        parsed == Strptime(date_str.s)
    IN  IF Truthy(date_str) /\ date_str.t = "str"
        THEN [post EXCEPT !.front_matter =
                 Obj(DictSet(@.kids, KDateObj, IF parsed.ok THEN parsed.v ELSE DateTimeMin))]
        ELSE post

\* x['front_matter'].get('_date_obj', datetime.datetime.min)
SortKey(post) ==
    IF HasKey(post.front_matter, KDateObj)
    THEN DateOrdinal(Lookup(post.front_matter, KDateObj))
    ELSE DateOrdinal(DateTimeMin)

RECURSIVE InsertDescendingUnstable(_, _)
\* a sort that is not stable: x goes ahead of the posts whose key equals its own
InsertDescendingUnstable(sorted, x) ==
    IF sorted = <<>>
    THEN <<x>>
    ELSE IF DateOrdinal(Get(Head(sorted).front_matter, KDateObj)) > DateOrdinal(Get(x.front_matter, KDateObj))
         THEN <<Head(sorted)>> \o InsertDescendingUnstable(Tail(sorted), x)
         ELSE <<x>> \o sorted

RECURSIVE InsertDescending(_, _)
\* x goes behind every post whose key is at least its own
InsertDescending(sorted, x) ==
    IF sorted = <<>>
    THEN <<x>>
    ELSE IF SortKey(Head(sorted)) >= SortKey(x)
         THEN <<Head(sorted)>> \o InsertDescending(Tail(sorted), x)
         ELSE <<x>> \o sorted

RECURSIVE SortedDescending(_, _)
\* sorted(posts, key=..., reverse=True): stable
SortedDescending(posts, acc) ==
    IF posts = <<>> THEN acc ELSE SortedDescending(Tail(posts), InsertDescending(acc, Head(posts)))

NoTitle == <<"N", "o", " ", "T", "i", "t", "l", "e">>

\* the item element of one post; pubDate is kept as the datetime strftime
\* is given
FeedItem(post) ==
    LET pub_date_obj == Get(post.front_matter, KDateObj)
    IN  [title |-> IF HasKey(post.front_matter, KTitle)
                   THEN Lookup(post.front_matter, KTitle)
                   ELSE JStr(NoTitle),
         link |-> post.url,
         guid |-> post.url,
         has_pubDate |-> Truthy(pub_date_obj) /\ pub_date_obj.t = "datetime",
         pubDate |-> pub_date_obj,
         description |->
             IF HasKey(post.front_matter, KDescription)
             THEN Lookup(post.front_matter, KDescription)
             ELSE JStr(IF Len(post.content) > DescriptionLimit
                       THEN SubSeq(post.content, 1, DescriptionLimit) \o <<".", ".", ".">>
                       ELSE post.content)]

\* a slice that keeps the end of the list: posts_sorted[-10:]
LastPosts(posts_sorted) ==
    SubSeq(posts_sorted,
           IF Len(posts_sorted) < FeedLimit THEN 1 ELSE Len(posts_sorted) - FeedLimit + 1,
           Len(posts_sorted))

\* posts_sorted[:10]
FirstPosts(posts_sorted) ==
    SubSeq(posts_sorted, 1, IF Len(posts_sorted) < FeedLimit THEN Len(posts_sorted) ELSE FeedLimit)

\* generate_rss_feed(config, collections_data): the stage, collections_data
\* with the posts as the first loop leaves them, and the items of the feed
GenerateRssFeed(config, registry, collections_data, st) ==
    LET before == WithHook(st, registry, "before_generate_rss_feed", <<>>, <<>>)
        posts == CollectionItems(collections_data, PostsName)
        dated == [i \in 1..Len(posts) |-> WithDateObj(posts[i])]
        posts_sorted == SortedDescending(dated, <<>>)
        chosen == FirstPosts(posts_sorted)
        rss_path == FeedPath(config)
        written == [before EXCEPT !.output = WriteFile(@, OutFile(rss_path, rss_path, <<>>))]
    IN  IF before.err # NoError \/ posts = <<>>
        THEN [st |-> before, collections_data |-> collections_data, items |-> <<>>]
        ELSE IF \E i \in 1..Len(posts) : ~IsDict(posts[i].front_matter)
        THEN [st |-> [before EXCEPT !.err = Err("AttributeError", rss_path)],
              collections_data |-> collections_data, items |-> <<>>]
        ELSE [st |-> WithHook(written, registry, "after_generate_rss_feed", <<>>, rss_path),
              collections_data |->
                  [i \in 1..Len(collections_data) |->
                      IF collections_data[i].name = PostsName
                      THEN [collections_data[i] EXCEPT !.items = dated]
                      ELSE collections_data[i]],
              items |-> [i \in 1..Len(chosen) |-> FeedItem(chosen[i])]]

(***************************************************************************)
(* The texts handed to parse_front_matter: an optional opening delimiter,  *)
(* a header made from a JSON value, an optional closing delimiter and a    *)
(* body with whitespace around it.                                         *)
(***************************************************************************)
StrPool == {<<>>, <<"a">>, Delim}
NumPool == {<<"0">>, <<"1">>}
KeyPool == {<<"k">>, Delim}

Scalars == {JStr(s) : s \in StrPool} \cup {JNum(n) : n \in NumPool} \cup {JTrue, JNull}

RECURSIVE MembersUpTo(_, _)
\* the member lists of at most n members with distinct keys over the scalars
MembersUpTo(vals, n) ==
    IF n = 0
    THEN {<<>>}
    ELSE LET shorter == MembersUpTo(vals, n - 1)
             longest == {m \in shorter : Len(m) = n - 1}
         IN  shorter \cup
             {Append(t[1], Member(t[2], t[3])) :
                 t \in {u \in longest \X KeyPool \X vals :
                           \A i \in 1..Len(u[1]) : u[1][i].k # u[2]}}

RECURSIVE ElementsUpTo(_, _)
ElementsUpTo(vals, n) ==
    IF n = 0
    THEN {<<>>}
    ELSE LET shorter == ElementsUpTo(vals, n - 1)
             longest == {m \in shorter : Len(m) = n - 1}
         IN  shorter \cup {Append(t[1], Member(<<>>, t[2])) : t \in longest \X vals}

\* scalars, and objects and arrays of at most MaxKeys scalars
FlatValues ==
    Scalars
    \cup {Val("obj", <<>>, m) : m \in MembersUpTo(Scalars, MaxKeys)}
    \cup {Val("arr", <<>>, e) : e \in ElementsUpTo(Scalars, MaxKeys)}

RECURSIVE ValuesOfDepth(_)
\* the values nested at most d deep: one more level wraps a value into an
\* object or an array of one member
ValuesOfDepth(d) ==
    IF d <= 1
    THEN FlatValues
    ELSE LET inner == ValuesOfDepth(d - 1)
         IN  inner
             \cup {Val("obj", <<>>, <<Member(k, v)>>) : k \in KeyPool, v \in inner}
             \cup {Val("arr", <<>>, <<Member(<<>>, v)>>) : v \in inner}

RECURSIVE Repeat(_, _)
Repeat(c, n) == IF n = 0 THEN <<>> ELSE <<c>> \o Repeat(c, n - 1)

BodyCores == {<<>>, <<"x">>, <<"x", " ", "+", "+", "+", "y">>}

\* the header as written into the file: the serialization itself, the
\* serialization with whitespace around it, or the serialization cut short
HeaderText(v, shape) ==
    LET h == Dumps(v)
    IN  CASE shape = "padded" -> <<" ">> \o h \o <<"\n">>
          [] shape = "cut" -> SubSeq(h, 1, Len(h) - 1)
          [] OTHER -> h

FmInputs ==
    {[lead |-> t[1], close |-> t[2], shape |-> t[3], v |-> t[4],
      lpad |-> Repeat(" ", t[5]), core |-> t[6], rpad |-> Repeat("\n", t[7])] :
        t \in {u \in BOOLEAN \X BOOLEAN \X {"plain", "padded", "cut"}
                     \X ValuesOfDepth(MaxDepth) \X (0..MaxPad) \X BodyCores \X (0..MaxPad) :
                  u[3] = "plain" \/ (u[1] /\ u[2])}}

FmBody(in) == in.lpad \o in.core \o in.rpad

\* the raw text of the file
FmContent(in) ==
    (IF in.lead THEN Delim ELSE <<>>) \o HeaderText(in.v, in.shape)
        \o (IF in.close THEN Delim ELSE <<>>) \o FmBody(in)

NoFmInput ==
    [lead |-> FALSE, close |-> FALSE, shape |-> "plain", v |-> JNull,
     lpad |-> <<>>, core |-> <<>>, rpad |-> <<>>]

(***************************************************************************)
(* The state: one process running build_command again and again (the       *)
(* build of the command line, the rebuilds of the watcher), and the call   *)
(* of parse_front_matter the parser's own specification makes.             *)
(***************************************************************************)
\* the builds one behaviour runs
MaxBuilds == 2

VARIABLES
    pc,                     \* where build_command is
    builds,                 \* the builds started so far
    config,                 \* what load_config returned to this build
    tree,                   \* the source tree as this build reads it
    PLUGINS,                \* plugin_system.PLUGINS
    sys_modules,            \* sys.modules: the plugin modules imported so far
    hookCalls,              \* the run_hook calls of this build, in order
    output,                 \* the files of the output directory
    site_data,              \* what load_data_files returned
    collections_data,       \* what load_collections returned
    rendered_pages_info,    \* the list render_all_content builds
    cursor,                 \* the index of the next file or item of a loop
    error,                  \* the exception that left build_command
    sitemap,                \* the loc elements of sitemap.xml
    feed,                   \* the item elements of feed.xml
    fmPc,                   \* "off", "called", "returned": parse_front_matter
    fmIn,                   \* the text it is called with, by its parts
    fmOut,                  \* the pair it returned
    urlPc,                  \* "off", "called", "returned": url
    urlIn,                  \* the path, the slashes put before it and the config
    urlOut,                 \* what url returned for the path and for the slashed path
    previous,               \* what the build before this one left, as an observer noted it
    mainPc,                 \* where the main thread is in serve_command
    watcherPc,              \* where the observer thread is
    building,               \* per thread, the calls of build_command it is inside
    event_queue,            \* the event queue of the observer
    stop_asked,             \* observer.stop() was called
    httpd,                  \* "off", "serving", "shut": the HTTP server
    now,                    \* the clock, in ticks
    last_rebuild_time,      \* MyHandler.last_rebuild_time
    ended_at,               \* when the last call of build_command ended, at the clock
    rebuilds,               \* the calls of build_command the handler has made
    requests,               \* the GET requests served
    handled                 \* the last event the handler was given, and what it did

fmVars == <<fmPc, fmIn, fmOut>>

buildVars ==
    <<pc, builds, config, tree, PLUGINS, sys_modules, hookCalls, output, site_data, collections_data,
      rendered_pages_info, cursor, error, sitemap, feed>>

urlVars == <<urlPc, urlIn, urlOut>>

serveVars ==
    <<mainPc, watcherPc, building, event_queue, stop_asked, httpd, now, last_rebuild_time,
      ended_at, rebuilds, requests, handled>>

\* the variables build_command leaves alone
restVars == <<fmVars, urlVars, previous, serveVars>>

vars == <<buildVars, restVars>>

NoUrlInput == [path |-> <<>>, slashes |-> 0, use_absolute_urls |-> FALSE]
NoUrlOutput == [plain |-> <<>>, slashed |-> <<>>]

Threads == {"main", "watcher"}

NotHandled == [seen |-> FALSE, path |-> <<>>, at |-> 0, since |-> 0, relevant |-> FALSE, rebuilt |-> FALSE]

\* serve_command has not been called
ServeOff ==
    /\ mainPc = "off"
    /\ watcherPc = "not_started"
    /\ building = [t \in Threads |-> 0]
    /\ event_queue = <<>>
    /\ stop_asked = FALSE
    /\ httpd = "off"
    /\ now = 0
    /\ last_rebuild_time = 0
    /\ ended_at = 0
    /\ rebuilds = 0
    /\ requests = 0
    /\ handled = NotHandled

UrlOff == urlPc = "off" /\ urlIn = NoUrlInput /\ urlOut = NoUrlOutput /\ previous = <<>> /\ ServeOff

FmOff == fmPc = "off" /\ fmIn = NoFmInput /\ fmOut = FmResult(EmptyDict, <<>>) /\ UrlOff

\* the state before the first build
BuildIdle ==
    /\ pc = "idle"
    /\ builds = 0
    /\ config = NoConfig
    /\ tree = DefaultTree
    /\ PLUGINS = <<>>
    /\ sys_modules = {}
    /\ hookCalls = <<>>
    /\ output = {}
    /\ site_data = EmptyDict
    /\ collections_data = <<>>
    /\ rendered_pages_info = <<>>
    /\ cursor = 1
    /\ error = NoError
    /\ sitemap = <<>>
    /\ feed = <<>>

Init == BuildIdle /\ FmOff

InitFM ==
    /\ BuildIdle
    /\ fmPc = "called"
    /\ fmIn \in FmInputs
    /\ fmOut = FmResult(EmptyDict, <<>>)
    /\ UrlOff

\* one call of parse_front_matter on the text
CallParseFrontMatter ==
    /\ fmPc = "called"
    /\ fmOut' = ParseFrontMatter(FmContent(fmIn))
    /\ fmPc' = "returned"
    /\ UNCHANGED <<fmIn, buildVars, urlVars, previous, serveVars>>

NextFM == CallParseFrontMatter

SpecFM == InitFM /\ [][NextFM]_vars

(***************************************************************************)
(* url on its own: a path of up to MaxPath characters, with up to          *)
(* MaxSlashes slashes put before it, under relative and absolute URLs.     *)
(***************************************************************************)
MaxPath == 3
MaxSlashes == 2

\* the paths of exactly n characters over "/" and "a"
RECURSIVE PathsOfLen(_)
PathsOfLen(n) ==
    IF n = 0 THEN {<<>>} ELSE {p \o <<c>> : p \in PathsOfLen(n - 1), c \in {"/", "a"}}

UrlPaths == UNION {PathsOfLen(n) : n \in 0..MaxPath}

UrlInputs ==
    [path : UrlPaths, slashes : 0..MaxSlashes, use_absolute_urls : BOOLEAN]

\* the config url is given
UrlConfig(in) == [Config(<<>>, <<>>) EXCEPT !.use_absolute_urls = in.use_absolute_urls]

InitUrl ==
    /\ BuildIdle
    /\ fmPc = "off" /\ fmIn = NoFmInput /\ fmOut = FmResult(EmptyDict, <<>>)
    /\ urlPc = "called"
    /\ urlIn \in UrlInputs
    /\ urlOut = NoUrlOutput
    /\ previous = <<>>
    /\ ServeOff

\* url(p, config) and url('/' * n + p, config)
CallUrl ==
    /\ urlPc = "called"
    /\ urlOut' = [plain |-> Url(urlIn.path, UrlConfig(urlIn)),
                  slashed |-> Url(Repeat("/", urlIn.slashes) \o urlIn.path, UrlConfig(urlIn))]
    /\ urlPc' = "returned"
    /\ UNCHANGED <<urlIn, buildVars, fmVars, previous, serveVars>>

NextUrl == CallUrl

SpecUrl == InitUrl /\ [][NextUrl]_vars

(***************************************************************************)
(* build_command, one action per step.                                     *)
(***************************************************************************)
\* the stage the variables hold
Current == Stage(hookCalls, output, rendered_pages_info)

\* the variables take the result of a stage; an exception ends the build
Commit(st, next) ==
    /\ hookCalls' = st.calls
    /\ output' = st.output
    /\ rendered_pages_info' = st.info
    /\ error' = st.err
    /\ pc' = IF st.err = NoError THEN next ELSE "aborted"

CanStart == pc \in {"idle", "done", "aborted"} /\ builds < MaxBuilds

\* load_config raises: the file is missing or is not JSON
LoadConfigRaises ==
    /\ CanStart
    /\ builds' = builds + 1
    /\ pc' = "aborted"
    /\ error' = Err("config", <<>>)
    /\ UNCHANGED <<config, tree, PLUGINS, sys_modules, hookCalls, output, site_data, collections_data,
                   rendered_pages_info, cursor, sitemap, feed, restVars>>

\* load_config returns; the locals of the build are fresh, and it has read
\* nothing of the source tree yet
LoadConfig ==
    /\ CanStart
    /\ builds' = builds + 1
    /\ config' \in Configs
    /\ pc' = "load_plugins"
    /\ hookCalls' = <<>>
    /\ site_data' = EmptyDict
    /\ collections_data' = <<>>
    /\ rendered_pages_info' = <<>>
    /\ cursor' = 1
    /\ error' = NoError
    /\ tree' = DefaultTree
    /\ UNCHANGED <<PLUGINS, sys_modules, output, sitemap, feed, restVars>>

\* load_plugins(config)
LoadPluginsStep ==
    /\ pc = "load_plugins"
    /\ \E r \in {LoadPlugins(config, PLUGINS, sys_modules)} :
           /\ PLUGINS' = r.plugins
           /\ sys_modules' = r.sys_modules
    /\ pc' = "before_build"
    /\ UNCHANGED <<builds, config, tree, hookCalls, output, site_data, collections_data,
                   rendered_pages_info, cursor, error, sitemap, feed, restVars>>

\* run_hook("before_build", config=config)
BeforeBuild ==
    /\ pc = "before_build"
    /\ \E st \in {WithHook(Current, PLUGINS, "before_build", <<>>, <<>>)} :
           Commit(st, "clear_output")
    /\ UNCHANGED <<builds, config, tree, PLUGINS, sys_modules, site_data, collections_data, cursor,
                   sitemap, feed, restVars>>

\* shutil.rmtree and os.makedirs of the output directory; from here on the
\* build reads the source tree, which is what the files hold now
ClearOutput ==
    /\ pc = "clear_output"
    /\ output' = {}
    /\ sitemap' = <<>>
    /\ feed' = <<>>
    /\ tree' \in Trees
    /\ pc' = "load_data_files"
    /\ UNCHANGED <<builds, config, PLUGINS, sys_modules, hookCalls, site_data, collections_data,
                   rendered_pages_info, cursor, error, restVars>>

\* site_data = load_data_files(config)
LoadDataFilesStep ==
    /\ pc = "load_data_files"
    /\ site_data' = LoadDataFiles(config, tree)
    /\ pc' = "load_collections"
    /\ UNCHANGED <<builds, config, tree, PLUGINS, sys_modules, hookCalls, output, collections_data,
                   rendered_pages_info, cursor, error, sitemap, feed, restVars>>

\* collections_data = load_collections(config)
LoadCollectionsStep ==
    /\ pc = "load_collections"
    /\ \E r \in {LoadCollections(config, tree)} :
           /\ collections_data' = r.data
           /\ error' = r.err
           /\ pc' = IF r.err = NoError THEN "render_pages" ELSE "aborted"
    /\ cursor' = 1
    /\ UNCHANGED <<builds, config, tree, PLUGINS, sys_modules, hookCalls, output, site_data,
                   rendered_pages_info, sitemap, feed, restVars>>

\* render_all_content: one file of the walk over pages_dir
RenderPageStep ==
    /\ pc = "render_pages"
    /\ cursor <= Len(PageWalk)
    /\ \E st \in {RenderPage(config, tree, PLUGINS, PageWalk[cursor], Current)} :
           Commit(st, IF cursor < Len(PageWalk)
                      THEN "render_pages"
                      ELSE IF ItemQueue(collections_data) = <<>>
                           THEN "copy_static"
                           ELSE "render_collections")
    /\ cursor' = IF cursor < Len(PageWalk) THEN cursor + 1 ELSE 1
    /\ UNCHANGED <<builds, config, tree, PLUGINS, sys_modules, site_data, collections_data,
                   sitemap, feed, restVars>>

\* render_all_content: one item of the loops over collections_data
RenderItemStep ==
    /\ pc = "render_collections"
    /\ cursor <= Len(ItemQueue(collections_data))
    /\ \E queue \in {ItemQueue(collections_data)} :
       \E st \in {RenderItem(config, tree, PLUGINS, queue[cursor].collection,
                             queue[cursor].item, Current)} :
           Commit(st, IF cursor < Len(queue) THEN "render_collections" ELSE "copy_static")
    /\ cursor' = cursor + 1
    /\ UNCHANGED <<builds, config, tree, PLUGINS, sys_modules, site_data, collections_data,
                   sitemap, feed, restVars>>

\* copy_static(config)
CopyStaticStep ==
    /\ pc = "copy_static"
    /\ \E st \in {CopyStatic(config, tree, PLUGINS, Current)} : Commit(st, "copy_assets")
    /\ UNCHANGED <<builds, config, tree, PLUGINS, sys_modules, site_data, collections_data, cursor,
                   sitemap, feed, restVars>>

\* copy_assets(config)
CopyAssetsStep ==
    /\ pc = "copy_assets"
    /\ \E st \in {CopyAssets(config, tree, PLUGINS, Current)} :
           Commit(st, "generate_sitemap")
    /\ UNCHANGED <<builds, config, tree, PLUGINS, sys_modules, site_data, collections_data, cursor,
                   sitemap, feed, restVars>>

\* generate_sitemap(config, rendered_pages_info)
GenerateSitemapStep ==
    /\ pc = "generate_sitemap"
    /\ \E r \in {GenerateSitemap(config, PLUGINS, Current)} :
           /\ Commit(r.st, "generate_rss_feed")
           /\ sitemap' = r.locs
    /\ UNCHANGED <<builds, config, tree, PLUGINS, sys_modules, site_data, collections_data, cursor,
                   feed, restVars>>

\* generate_rss_feed(config, collections_data)
GenerateRssFeedStep ==
    /\ pc = "generate_rss_feed"
    /\ \E r \in {GenerateRssFeed(config, PLUGINS, collections_data, Current)} :
           /\ Commit(r.st, "after_build")
           /\ collections_data' = r.collections_data
           /\ feed' = r.items
    /\ UNCHANGED <<builds, config, tree, PLUGINS, sys_modules, site_data, cursor, sitemap, restVars>>

\* run_hook("after_build", config=config)
AfterBuild ==
    /\ pc = "after_build"
    /\ \E st \in {WithHook(Current, PLUGINS, "after_build", <<>>, <<>>)} : Commit(st, "done")
    /\ UNCHANGED <<builds, config, tree, PLUGINS, sys_modules, site_data, collections_data, cursor,
                   sitemap, feed, restVars>>

Next ==
    \/ LoadConfigRaises
    \/ LoadConfig
    \/ LoadPluginsStep
    \/ BeforeBuild
    \/ ClearOutput
    \/ LoadDataFilesStep
    \/ LoadCollectionsStep
    \/ RenderPageStep
    \/ RenderItemStep
    \/ CopyStaticStep
    \/ CopyAssetsStep
    \/ GenerateSitemapStep
    \/ GenerateRssFeedStep
    \/ AfterBuild

Spec == Init /\ [][Next]_vars

(***************************************************************************)
(* build_command run again and again on inputs that do not change: the     *)
(* config file and the source tree are what they were at the first build.  *)
(***************************************************************************)
\* what a build leaves behind
Left ==
    [output |-> output, sitemap |-> sitemap, feed |-> feed,
     rendered_pages_info |-> rendered_pages_info, hookCalls |-> hookCalls,
     PLUGINS |-> PLUGINS, error |-> error]

InitRebuild ==
    /\ pc = "idle"
    /\ builds = 0
    /\ config \in Configs
    /\ tree \in Trees
    /\ PLUGINS = <<>>
    /\ sys_modules = {}
    /\ hookCalls = <<>>
    /\ output = {}
    /\ site_data = EmptyDict
    /\ collections_data = <<>>
    /\ rendered_pages_info = <<>>
    /\ cursor = 1
    /\ error = NoError
    /\ sitemap = <<>>
    /\ feed = <<>>
    /\ FmOff

\* load_config returns what it returned to the build before; what that
\* build left is noted as the next one starts
LoadConfigUnchanged ==
    /\ CanStart
    /\ builds' = builds + 1
    /\ previous' = IF builds = 0 THEN <<>> ELSE <<Left>>
    /\ pc' = "load_plugins"
    /\ hookCalls' = <<>>
    /\ site_data' = EmptyDict
    /\ collections_data' = <<>>
    /\ rendered_pages_info' = <<>>
    /\ cursor' = 1
    /\ error' = NoError
    /\ UNCHANGED <<config, tree, PLUGINS, sys_modules, output, sitemap, feed, fmVars, urlVars,
                   serveVars>>

\* the output directory is removed and made again; the source tree is as
\* the build before read it
ClearOutputUnchanged ==
    /\ pc = "clear_output"
    /\ output' = {}
    /\ sitemap' = <<>>
    /\ feed' = <<>>
    /\ pc' = "load_data_files"
    /\ UNCHANGED <<builds, config, tree, PLUGINS, sys_modules, hookCalls, site_data, collections_data,
                   rendered_pages_info, cursor, error, restVars>>

NextRebuild ==
    \/ LoadConfigUnchanged
    \/ LoadPluginsStep
    \/ BeforeBuild
    \/ ClearOutputUnchanged
    \/ LoadDataFilesStep
    \/ LoadCollectionsStep
    \/ RenderPageStep
    \/ RenderItemStep
    \/ CopyStaticStep
    \/ CopyAssetsStep
    \/ GenerateSitemapStep
    \/ GenerateRssFeedStep
    \/ AfterBuild

SpecRebuild == InitRebuild /\ [][NextRebuild]_vars

(***************************************************************************)
(* serve_command: the main thread builds once, starts the observer and the *)
(* HTTP server and waits for the interrupt; the observer thread hands the  *)
(* queued file system events to MyHandler.on_any_event one at a time.  A   *)
(* call of build_command is the pipeline of Spec; here it is seen from     *)
(* outside, by the thread that is inside it, when it ends and how.         *)
(***************************************************************************)
\* the ticks of the clock in a second
TicksPerSecond == 2
\* the ticks the clock runs for
MaxTime == 4
\* the events the queue holds at most
MaxQueue == 2
\* the calls of build_command the handler makes at most
MaxRebuilds == 2
\* the GET requests served at most
MaxRequests == 1

ConfigDir == <<"s">>
ConfigPath == Join(ConfigDir, <<"c", ".", "j", "s", "o", "n">>)

\* what load_config returns for the config file of the served site
ServeConfig == Config(PluginsA, <<PostsSettings>>)

\* os.path.exists(d) for a directory a config names
DirExists(d) ==
    \/ d \in {PagesDir, TemplatesDir, DataDir, ConfigDir}
    \/ d \in DOMAIN DefaultTree.dirs /\ DefaultTree.dirs[d] # Absent
    \/ PluginDirExists(d)
    \/ CollectionPathExists(d)

\* the directories a config names: pages, templates, static, assets, data,
\* plugins and the paths of the collections
ConfigDirs(cfg) ==
    {cfg.pages_dir, cfg.templates_dir, cfg.static_dir, cfg.assets_dir,
     cfg.data_dir, cfg.plugins_dir}
    \cup {cfg.collections[i].path : i \in 1..Len(cfg.collections)}

\* the directories serve_command schedules the handler for
DirsToWatch(cfg) == {d \in ConfigDirs(cfg) \cup {ConfigDir} : d # <<>> /\ DirExists(d)}

\* relevant_dirs of on_any_event
RelevantDirs(cfg) == {d \in ConfigDirs(cfg) : d # <<>> /\ DirExists(d)}

\* the test on_any_event makes before it rebuilds
Relevant(src_path, cfg) ==
    \/ \E d \in RelevantDirs(cfg) : StartsWith(src_path, d)
    \/ src_path = ConfigPath

\* now - self.last_rebuild_time < timedelta(seconds=1)
Debounced(t, last) == t - last < TicksPerSecond

\* the paths the file system reports changes of: a page, the config file,
\* and a file beside the config file
EventPaths ==
    {Join(PagesDir, <<"i">> \o Html), ConfigPath, Join(ConfigDir, <<"n", ".", "t", "x", "t">>)}

\* on_any_event calls build_command itself and returns when it has: the
\* observer thread takes the next event only when it is back from the handler
MayDispatchWhileBuilding == watcherPc \in {"idle", "building"}

MayDispatch == watcherPc = "idle"

nonServeVars == <<buildVars, fmVars, urlVars, previous>>

InitServe ==
    /\ BuildIdle
    /\ fmPc = "off" /\ fmIn = NoFmInput /\ fmOut = FmResult(EmptyDict, <<>>)
    /\ urlPc = "off" /\ urlIn = NoUrlInput /\ urlOut = NoUrlOutput /\ previous = <<>>
    /\ mainPc = "start"
    /\ watcherPc = "not_started"
    /\ building = [t \in Threads |-> 0]
    /\ event_queue = <<>>
    /\ stop_asked = FALSE
    /\ httpd = "off"
    /\ now = 0
    /\ last_rebuild_time = 0
    /\ ended_at = 0
    /\ rebuilds = 0
    /\ requests = 0
    /\ handled = NotHandled

\* the process ends with the main thread: the observer thread is a daemon
\* and is cut off wherever it is
ProcessEnds ==
    /\ mainPc' = "raised"
    /\ watcherPc' = IF watcherPc = "not_started" THEN "not_started" ELSE "stopped"
    /\ building' = [t \in Threads |-> 0]
    /\ httpd' = IF httpd = "serving" THEN "shut" ELSE httpd

\* config = load_config(config_path), which may raise
ServeLoadConfig ==
    /\ mainPc = "start"
    /\ mainPc' \in {"configured", "raised"}
    /\ UNCHANGED <<watcherPc, building, event_queue, stop_asked, httpd, now, last_rebuild_time,
                   ended_at, rebuilds, requests, handled, nonServeVars>>

\* the main thread enters build_command
InitialBuildBegins ==
    /\ mainPc = "configured"
    /\ mainPc' = "initial_build"
    /\ building' = [building EXCEPT !["main"] = @ + 1]
    /\ UNCHANGED <<watcherPc, event_queue, stop_asked, httpd, now, last_rebuild_time, ended_at,
                   rebuilds, requests, handled, nonServeVars>>

\* build_command returns and MyHandler is made, taking the time and loading
\* the config; or one of them raises and serve_command ends
InitialBuildEnds ==
    /\ mainPc = "initial_build"
    /\ \E outcome \in {"returned", "raised"} :
           IF outcome = "returned"
           THEN /\ mainPc' = "handler_made"
                /\ building' = [building EXCEPT !["main"] = @ - 1]
                /\ last_rebuild_time' = now
                /\ ended_at' = now
                /\ UNCHANGED <<watcherPc, httpd>>
           ELSE /\ ProcessEnds
                /\ UNCHANGED <<last_rebuild_time, ended_at>>
    /\ UNCHANGED <<event_queue, stop_asked, now, rebuilds, requests, handled, nonServeVars>>

\* observer.schedule for each directory, observer.start()
StartObserver ==
    /\ mainPc = "handler_made"
    /\ mainPc' = "observing"
    /\ watcherPc' = "idle"
    /\ UNCHANGED <<building, event_queue, stop_asked, httpd, now, last_rebuild_time, ended_at,
                   rebuilds, requests, handled, nonServeVars>>

\* ThreadingTCPServer(("", port), Handler) and the server thread; the port
\* may be taken
StartHttpd ==
    /\ mainPc = "observing"
    /\ \E outcome \in {"serving", "raised"} :
           IF outcome = "serving"
           THEN /\ mainPc' = "waiting"
                /\ httpd' = "serving"
                /\ UNCHANGED <<watcherPc, building>>
           ELSE ProcessEnds
    /\ UNCHANGED <<event_queue, stop_asked, now, last_rebuild_time, ended_at, rebuilds, requests,
                   handled, nonServeVars>>

\* KeyboardInterrupt outside the try of serve_command
InterruptUncaught ==
    /\ mainPc \in {"configured", "initial_build", "handler_made", "observing"}
    /\ ProcessEnds
    /\ UNCHANGED <<event_queue, stop_asked, now, last_rebuild_time, ended_at, rebuilds, requests,
                   handled, nonServeVars>>

\* KeyboardInterrupt in the waiting loop
InterruptCaught ==
    /\ mainPc = "waiting"
    /\ mainPc' = "interrupted"
    /\ UNCHANGED <<watcherPc, building, event_queue, stop_asked, httpd, now, last_rebuild_time,
                   ended_at, rebuilds, requests, handled, nonServeVars>>

\* httpd.shutdown()
ShutdownHttpd ==
    /\ mainPc = "interrupted"
    /\ mainPc' = "httpd_shut"
    /\ httpd' = "shut"
    /\ UNCHANGED <<watcherPc, building, event_queue, stop_asked, now, last_rebuild_time, ended_at,
                   rebuilds, requests, handled, nonServeVars>>

\* observer.stop()
StopObserver ==
    /\ mainPc = "httpd_shut"
    /\ mainPc' = "stopping"
    /\ stop_asked' = TRUE
    /\ UNCHANGED <<watcherPc, building, event_queue, httpd, now, last_rebuild_time, ended_at,
                   rebuilds, requests, handled, nonServeVars>>

\* observer.join() returns when the observer thread has ended
JoinObserver ==
    /\ mainPc = "stopping"
    /\ watcherPc = "stopped"
    /\ mainPc' = "returned"
    /\ UNCHANGED <<watcherPc, building, event_queue, stop_asked, httpd, now, last_rebuild_time,
                   ended_at, rebuilds, requests, handled, nonServeVars>>

\* the observer thread gives the next event of the queue to on_any_event:
\* the debounce test, the relevance test, and the call of build_command
HandleEvent ==
    /\ MayDispatch
    /\ event_queue # <<>>
    /\ LET src_path == Head(event_queue)
           rebuild == ~Debounced(now, last_rebuild_time) /\ Relevant(src_path, ServeConfig)
       IN  /\ rebuild => rebuilds < MaxRebuilds
           /\ event_queue' = Tail(event_queue)
           /\ handled' = [seen |-> TRUE, path |-> src_path, at |-> now, since |-> ended_at,
                          relevant |-> Relevant(src_path, ServeConfig), rebuilt |-> rebuild]
           /\ watcherPc' = IF rebuild THEN "building" ELSE watcherPc
           /\ building' = IF rebuild THEN [building EXCEPT !["watcher"] = @ + 1] ELSE building
           /\ rebuilds' = IF rebuild THEN rebuilds + 1 ELSE rebuilds
    /\ UNCHANGED <<mainPc, stop_asked, httpd, now, last_rebuild_time, ended_at, requests,
                   nonServeVars>>

\* build_command comes back to on_any_event: it returned and the handler
\* takes the time, or it raised and the handler logs the exception
RebuildEnds ==
    /\ watcherPc = "building"
    /\ building["watcher"] > 0
    /\ \E outcome \in {"returned", "raised"} :
           last_rebuild_time' = IF outcome = "returned" THEN now ELSE last_rebuild_time
    /\ ended_at' = now
    /\ building' = [building EXCEPT !["watcher"] = @ - 1]
    /\ watcherPc' = IF building["watcher"] = 1 THEN "idle" ELSE "building"
    /\ UNCHANGED <<mainPc, event_queue, stop_asked, httpd, now, rebuilds, requests, handled,
                   nonServeVars>>

\* the observer thread sees that it was asked to stop
WatcherStops ==
    /\ watcherPc = "idle"
    /\ stop_asked
    /\ watcherPc' = "stopped"
    /\ UNCHANGED <<mainPc, building, event_queue, stop_asked, httpd, now, last_rebuild_time,
                   ended_at, rebuilds, requests, handled, nonServeVars>>

\* the file system reports a change under a watched directory
FsEvent ==
    /\ watcherPc \in {"idle", "building"}
    /\ Len(event_queue) < MaxQueue
    /\ \E src_path \in EventPaths :
           /\ \E d \in DirsToWatch(ServeConfig) : StartsWith(src_path, d)
           /\ event_queue' = Append(event_queue, src_path)
    /\ UNCHANGED <<mainPc, watcherPc, building, stop_asked, httpd, now, last_rebuild_time,
                   ended_at, rebuilds, requests, handled, nonServeVars>>

\* a GET request is answered from the output directory as it is
HttpGet ==
    /\ httpd = "serving"
    /\ requests < MaxRequests
    /\ requests' = requests + 1
    /\ UNCHANGED <<mainPc, watcherPc, building, event_queue, stop_asked, httpd, now,
                   last_rebuild_time, ended_at, rebuilds, handled, nonServeVars>>

\* time passes
Tick ==
    /\ now < MaxTime
    /\ mainPc \notin {"raised", "returned"}
    /\ now' = now + 1
    /\ UNCHANGED <<mainPc, watcherPc, building, event_queue, stop_asked, httpd, last_rebuild_time,
                   ended_at, rebuilds, requests, handled, nonServeVars>>

NextServe ==
    \/ ServeLoadConfig
    \/ InitialBuildBegins
    \/ InitialBuildEnds
    \/ StartObserver
    \/ StartHttpd
    \/ InterruptUncaught
    \/ InterruptCaught
    \/ ShutdownHttpd
    \/ StopObserver
    \/ JoinObserver
    \/ HandleEvent
    \/ RebuildEnds
    \/ WatcherStops
    \/ FsEvent
    \/ HttpGet
    \/ Tick

SpecServe == InitServe /\ [][NextServe]_vars

(***************************************************************************)
(* Claims about parse_front_matter.                                        *)
(***************************************************************************)
FmReturned == fmPc = "returned"

\* the text is "+++", the serialization of a JSON object, "+++", a body
FmWellFormed == fmIn.lead /\ fmIn.close /\ fmIn.shape = "plain" /\ IsDict(fmIn.v)

\* C6: parse_front_matter returns a mapping as the first component of its
\* pair for every input, also when the header is JSON that is no object.
C6_FrontMatterIsMapping == FmReturned => IsDict(fmOut.fm)

\* the returned pair is (the object, the trimmed body) and serializing the
\* returned mapping and parsing it again gives the same mapping
FmExact ==
    /\ fmOut.fm = fmIn.v
    /\ fmOut.body = fmIn.core
    /\ ParseFrontMatter(Delim \o Dumps(fmOut.fm) \o Delim \o FmBody(fmIn)).fm = fmOut.fm

\* C7 as stated: for every JSON object between the delimiters, also one
\* whose keys or string values contain "+++", the result is exactly
\* (the object, the trimmed body), and it survives a round trip.
C7_ExactForEveryObject == (FmReturned /\ FmWellFormed) => FmExact

\* C7 as amended: the same for every JSON object whose serialization does
\* not contain "+++".
C7_ExactWithoutDelimiterInHeader ==
    (FmReturned /\ FmWellFormed /\ Find(Dumps(fmIn.v), Delim, 1) = 0) => FmExact

C7_Witness ==
    /\ FmReturned /\ FmWellFormed
    /\ Find(Dumps(fmIn.v), Delim, 1) = 0
    /\ fmIn.v.kids # <<>>
    /\ fmIn.lpad # <<>> /\ fmIn.rpad # <<>> /\ Find(fmIn.core, Delim, 1) # 0
    /\ FmExact

\* where the second delimiter starts, 0 when there is none
FmSecondDelim(content) == Find(content, Delim, Len(Delim) + 1)

FmNoDelimiterPair(content) == ~StartsWith(content, Delim) \/ FmSecondDelim(content) = 0

FmHeaderInvalid(content) ==
    /\ ~FmNoDelimiterPair(content)
    /\ ~JsonLoads(SubSeq(content, Len(Delim) + 1, FmSecondDelim(content) - 1)).ok

\* C8: without a delimiter pair, or with a header that is not valid JSON,
\* parse_front_matter returns ({}, raw_text) with the text unchanged.
C8_FailsOpenUnchanged ==
    LET content == FmContent(fmIn)
    IN  (FmReturned /\ (FmNoDelimiterPair(content) \/ FmHeaderInvalid(content)))
            => fmOut = FmResult(EmptyDict, content)

C8_Witness ==
    LET content == FmContent(fmIn)
    IN  /\ FmReturned
        /\ FmHeaderInvalid(content)
        /\ Strip(content) # content
        /\ fmOut = FmResult(EmptyDict, content)

C8_WitnessNoClosing ==
    LET content == FmContent(fmIn)
    IN  /\ FmReturned
        /\ StartsWith(content, Delim) /\ FmSecondDelim(content) = 0
        /\ Strip(content) # content
        /\ fmOut = FmResult(EmptyDict, content)

(***************************************************************************)
(* load_data_files on its own: the data directory holds any of the texts   *)
(* in each of its files, or lacks the file.                                *)
(***************************************************************************)
DataFileTexts == JsonTexts \cup {Dumps(JNum(<<"2">>))}

InitData ==
    /\ pc = "load_data_files"
    /\ builds = 1
    /\ config = NoConfig
    /\ tree \in {[DefaultTree EXCEPT !.data = d] :
                    d \in [DataPaths -> DataFileTexts \cup {Absent}]}
    /\ PLUGINS = <<>>
    /\ sys_modules = {}
    /\ hookCalls = <<>>
    /\ output = {}
    /\ site_data = EmptyDict
    /\ collections_data = <<>>
    /\ rendered_pages_info = <<>>
    /\ cursor = 1
    /\ error = NoError
    /\ sitemap = <<>>
    /\ feed = <<>>
    /\ FmOff

NextData == LoadDataFilesStep

SpecData == InitData /\ [][NextData]_vars

(***************************************************************************)
(* generate_rss_feed on its own: the posts collection is absent, or holds  *)
(* up to MaxPosts items, each with any of the front matters, or holds up   *)
(* to MaxRun items with distinct valid dates.                              *)
(***************************************************************************)
MaxPosts == 3
\* the posts of the longest run of posts with distinct valid dates
MaxRun == 11

DateFeb30 == <<"2", "0", "2", "4", "-", "0", "2", "-", "3", "0">>
\* the date strptime gives datetime.min for
DateYear1 == <<"0", "0", "0", "1", "-", "0", "1", "-", "0", "1">>

\* the values a post may have under "date"
DateValues ==
    {JStr(Date0101), JStr(Date0301), JStr(DateLoose), JStr(DateBad), JStr(DateFeb30),
     JStr(DateYear1), JStr(<<>>), JNum(<<"5">>)}

PostFrontMatters == {EmptyDict} \cup {Obj(<<Member(KDate, d)>>) : d \in DateValues}

RssConfig == Config(<<>>, <<PostsSettings>>)

\* the item load_collections makes of the i-th file of the posts directory
PostItem(i, front_matter) ==
    LET relative_path ==
            (IF i < 10 THEN <<DigitOf(i)>> ELSE <<DigitOf(i \div 10), DigitOf(i)>>) \o Html
        item_output_path == Join(PostsOutput, relative_path)
    IN  [path |-> Join(PostsPath, relative_path),
         relative_path |-> relative_path,
         output_path_relative |-> item_output_path,
         front_matter |-> front_matter,
         content |-> <<"y">>,
         url |-> Url(item_output_path, RssConfig)]

\* the posts directory holding up to MaxPosts files of any front matter
PostLists ==
    UNION {{[i \in 1..n |-> PostItem(i, fms[i])] : fms \in [1..n -> PostFrontMatters]} :
              n \in 0..MaxPosts}

\* the d-th day of January 2024 as a post writes it
JanuaryDate(d) == <<"2", "0", "2", "4", "-", "0", "1", "-", DigitOf(d \div 10), DigitOf(d)>>

\* the orders n files of distinct dates may be discovered in: oldest first,
\* newest first, and oldest first from the second file on
RunOrders(n) ==
    {[i \in 1..n |-> i], [i \in 1..n |-> n + 1 - i], [i \in 1..n |-> (i % n) + 1]}

\* the posts directory holding n files with distinct valid dates
PostRuns ==
    UNION {{[i \in 1..n |-> PostItem(i, Obj(<<Member(KDate, JStr(JanuaryDate(order[i])))>>))] :
               order \in RunOrders(n)} : n \in (MaxPosts + 1)..MaxRun}

InitRss ==
    /\ pc = "generate_rss_feed"
    /\ builds = 1
    /\ config = RssConfig
    /\ tree = DefaultTree
    /\ PLUGINS = <<>>
    /\ sys_modules = {}
    /\ hookCalls = <<>>
    /\ output = {}
    /\ site_data = EmptyDict
    /\ collections_data \in {<<>>} \cup {<<[name |-> PostsName, items |-> posts]>> :
                                           posts \in PostLists \cup PostRuns}
    /\ rendered_pages_info = <<>>
    /\ cursor = 1
    /\ error = NoError
    /\ sitemap = <<>>
    /\ feed = <<>>
    /\ FmOff

NextRss == GenerateRssFeedStep

SpecRss == InitRss /\ [][NextRss]_vars

(***************************************************************************)
(* Claims about the build.                                                 *)
(***************************************************************************)
\* the after_render_page call that answers the i-th hook call
AnsweredAfter(i) ==
    \E j \in (i + 1)..Len(hookCalls) :
        /\ hookCalls[j].name = "after_render_page"
        /\ hookCalls[j].page_path = hookCalls[i].page_path
        /\ hookCalls[j].output_path # <<>>

\* C1: in render_all_content every item whose before_render_page hook fired
\* gets its after_render_page hook, with its source and output paths, whether
\* it was rendered or skipped.
C1_AfterRenderPageFollows ==
    error = NoError =>
        \A i \in 1..Len(hookCalls) :
            hookCalls[i].name = "before_render_page" => AnsweredAfter(i)

\* C2: once load_config has succeeded no failure of an item leaves the
\* build: the only build that ends early is one whose configuration did not
\* load.
C2_OnlyConfigFailureEndsBuild == pc = "aborted" => error.kind = "config"

\* the plugins of the registry that expose a hook as a function
Exposing(hook_name) == SelectSeq(PLUGINS, LAMBDA p : HookAttr(p, hook_name) = "function")

\* C3: run_hook never lets the failure of a plugin's hook function out: every
\* loaded plugin that exposes the hook is called, in registry order, whether
\* or not an earlier one raised, and no build ends on a hook; a build that
\* is done fired before_build first and after_build last.
C3_RunHookContainsFailures ==
    /\ error.kind # "hook"
    /\ \A i \in 1..Len(hookCalls) :
          /\ ~hookCalls[i].propagated
          /\ hookCalls[i].ran =
                [k \in 1..Len(Exposing(hookCalls[i].name)) |->
                    HookRun(Exposing(hookCalls[i].name)[k],
                            HookRaises(Exposing(hookCalls[i].name)[k], hookCalls[i].name))]
    /\ pc = "done" =>
          /\ hookCalls[1].name = "before_build"
          /\ hookCalls[Len(hookCalls)].name = "after_build"

\* a finished build whose before_build hook raised in one plugin and then
\* ran in the next
C3_Witness ==
    /\ pc = "done"
    /\ hookCalls[1].name = "before_build"
    /\ \E k \in 1..(Len(hookCalls[1].ran) - 1) :
          hookCalls[1].ran[k].raised /\ ~hookCalls[1].ran[k + 1].raised
    /\ hookCalls[Len(hookCalls)].name = "after_build"
    /\ hookCalls[Len(hookCalls)].ran # <<>>

\* the names of the modules load_plugins can import from a directory
LoadableFrom(dir) ==
    IF dir = <<>> \/ ~PluginDirExists(dir)
    THEN {}
    ELSE {SubSeq(f, 1, Len(f) - 3) :
             f \in {g \in SeqRange(ListPluginDir(dir)) :
                       /\ EndsWith(g, Py) /\ ~StartsWith(g, <<"_", "_">>)
                       /\ ~ImportRaises(SubSeq(g, 1, Len(g) - 3), dir)}}

\* C4: when a build fires before_build the registry holds exactly the
\* modules of the plugins directory this build is configured with, each
\* once, and none that an earlier build registered from elsewhere; it is
\* empty when the directory is not configured or does not exist.
C4_RegistryIsThisBuilds ==
    pc = "before_build" =>
        /\ {PLUGINS[i].name : i \in 1..Len(PLUGINS)} = LoadableFrom(config.plugins_dir)
        /\ \A i \in 1..Len(PLUGINS) : PLUGINS[i].dir = config.plugins_dir
        /\ \A i, j \in 1..Len(PLUGINS) : PLUGINS[i] = PLUGINS[j] => i = j

\* collections_data without the item of a path
WithoutItem(data, path) ==
    [i \in 1..Len(data) |->
        [data[i] EXCEPT !.items = SelectSeq(@, LAMBDA item : item.path # path)]]

\* a collection item whose front matter has no layout, or an empty one
Layoutless(item) == IsDict(item.front_matter) /\ ~Truthy(Get(item.front_matter, KLayout))

\* render_all_content has returned or raised
RenderEnded ==
    \/ pc = "copy_static"
    \/ pc = "aborted" /\ error.kind \in {"KeyError", "AttributeError", "TypeError", "OSError"}

\* C5: a collection item without a layout gives no record and no output
\* file, and the records and files of the build are those the build would
\* have made without the item.
C5_LayoutlessItemOnlySkipsItself ==
    RenderEnded =>
        \A q \in SeqRange(ItemQueue(collections_data)) :
            Layoutless(q.item) =>
                \A without \in {RenderAllContent(config, tree, PLUGINS,
                                                 WithoutItem(collections_data, q.item.path))} :
                    /\ \A r \in SeqRange(rendered_pages_info) : r.source_path # q.item.path
                    /\ \A f \in output : f.src # q.item.path
                    /\ rendered_pages_info = without.info
                    /\ output = without.output
                    /\ error = without.err

(***************************************************************************)
(* Claims about generate_rss_feed and load_data_files.                     *)
(***************************************************************************)
\* the post a feed item was made of
PostOf(feed_item) ==
    CHOOSE p \in SeqRange(CollectionItems(collections_data, PostsName)) : p.url = feed_item.link

\* C9: a feed item carries pubDate only when the date of its post parses as
\* %Y-%m-%d; a post whose date is missing or does not parse has none.
C9_PubDateOnlyWhenDateParses ==
    pc = "after_build" =>
        \A i \in 1..Len(feed) :
            feed[i].has_pubDate =>
                /\ Get(PostOf(feed[i]).front_matter, KDate).t = "str"
                /\ Strptime(Get(PostOf(feed[i]).front_matter, KDate).s).ok

RECURSIVE ValueAt(_, _)
\* node[keys[1]][keys[2]]..., where that is there
ValueAt(node, keys) ==
    IF keys = <<>>
    THEN [found |-> TRUE, v |-> node]
    ELSE IF IsDict(node) /\ HasKey(node, keys[1])
         THEN ValueAt(Lookup(node, keys[1]), Tail(keys))
         ELSE [found |-> FALSE, v |-> JNull]

\* the directories of a data file below the data root, then its name
\* without the extension
NestedKeys(file) ==
    Split(Splitext(Relpath(FilePath(file), DataDir)).name, <<"/">>, -1)

\* the file is there, is named .json and holds JSON
DataFileLoads(file) ==
    /\ tree.data[FilePath(file)] # Absent
    /\ Lower(Splitext(file.name).ext) = JsonExt
    /\ JsonLoads(tree.data[FilePath(file)]).ok

\* C10: load_data_files stores the value of <data_dir>/a/b/c.json at
\* data['a']['b']['c'], so files of one name in different directories are
\* both kept.
C10_StoredAtDirectoryPath ==
    pc = "load_collections" =>
        \A file \in SeqRange(DataWalk) :
            DataFileLoads(file) =>
                ValueAt(site_data, NestedKeys(file)) =
                    [found |-> TRUE, v |-> JsonLoads(tree.data[FilePath(file)]).v]

(***************************************************************************)
(* Claims about the order and the length of the feed.                      *)
(***************************************************************************)
\* generate_rss_feed has returned
RssEnded == pc = "after_build" /\ error = NoError

\* the posts in the order they were discovered
FeedPosts == CollectionItems(collections_data, PostsName)

\* the place in the discovery order of the post a feed item was made of
PostIndex(feed_item) == CHOOSE k \in 1..Len(FeedPosts) : FeedPosts[k].url = feed_item.link

\* the date of the post is a str that parses as %Y-%m-%d
HasValidDate(post) ==
    /\ Get(post.front_matter, KDate).t = "str"
    /\ Strptime(Get(post.front_matter, KDate).s).ok

ValidDate(post) == DateOrdinal(Strptime(Get(post.front_matter, KDate).s).v)

\* the parsed date, the oldest possible one for a post without a valid date
DateKey(post) == IF HasValidDate(post) THEN ValidDate(post) ELSE DateOrdinal(DateTimeMin)

\* no post is left out of a feed that has room for it
NoPostExcluded ==
    Len(FeedPosts) <= FeedLimit =>
        \A k \in 1..Len(FeedPosts) : \E i \in 1..Len(feed) : feed[i].link = FeedPosts[k].url

\* C11 as stated: the feed is descending by parsed date, a post without a
\* valid date is not excluded and comes after every post with a valid date,
\* and posts with equal keys keep their discovery order.
C11_UndatedAfterEveryDated ==
    RssEnded =>
        /\ NoPostExcluded
        /\ \A i, j \in 1..Len(feed) :
               i < j =>
                   LET a == FeedPosts[PostIndex(feed[i])]
                       b == FeedPosts[PostIndex(feed[j])]
                   IN  /\ HasValidDate(b) => HasValidDate(a)
                       /\ HasValidDate(a) /\ HasValidDate(b) => ValidDate(a) >= ValidDate(b)
                       /\ \/ HasValidDate(a) /\ HasValidDate(b) /\ ValidDate(a) = ValidDate(b)
                          \/ ~HasValidDate(a) /\ ~HasValidDate(b)
                          => PostIndex(feed[i]) < PostIndex(feed[j])

\* C11: the feed is descending by parsed date, where a post without a valid
\* date is not excluded and sorts as the oldest possible date (0001-01-01),
\* so after every post with a later valid date; posts with equal keys, a
\* post dated 0001-01-01 and one without a valid date among them, keep
\* their discovery order.
C11_DescendingStableUndatedOldest ==
    RssEnded =>
        /\ NoPostExcluded
        /\ \A i, j \in 1..Len(feed) :
               i < j =>
                   LET a == FeedPosts[PostIndex(feed[i])]
                       b == FeedPosts[PostIndex(feed[j])]
                   IN  \/ DateKey(a) > DateKey(b)
                       \/ DateKey(a) = DateKey(b) /\ PostIndex(feed[i]) < PostIndex(feed[j])

\* posts dated 2024-01-01, 2024-03-01 and an unparseable date come out as
\* [2024-03-01, 2024-01-01, unparseable]
C11_Witness ==
    /\ RssEnded
    /\ Len(FeedPosts) = 3
    /\ Get(FeedPosts[1].front_matter, KDate) = JStr(Date0101)
    /\ Get(FeedPosts[2].front_matter, KDate) = JStr(Date0301)
    /\ Get(FeedPosts[3].front_matter, KDate) = JStr(DateBad)
    /\ [i \in 1..Len(feed) |-> feed[i].link] = <<FeedPosts[2].url, FeedPosts[1].url, FeedPosts[3].url>>

\* the feed file is in the output directory
FeedWritten == \E f \in output : f.path = FeedPath(config)

\* C12: the feed has min(n, 10) items for n posts, one post each, and every
\* post left out is behind every post taken in the newest-first order; when
\* the collection is absent or empty no feed is written and nothing is raised.
C12_FeedTakesTheFirstTen ==
    /\ pc = "after_build" /\ FeedPosts = <<>> => error = NoError /\ ~FeedWritten /\ feed = <<>>
    /\ RssEnded /\ FeedPosts # <<>> =>
           /\ FeedWritten
           /\ Len(feed) = (IF Len(FeedPosts) < FeedLimit THEN Len(FeedPosts) ELSE FeedLimit)
           /\ \A i, j \in 1..Len(feed) : i # j => feed[i].link # feed[j].link
           /\ \A k \in 1..Len(FeedPosts) :
                  (\A i \in 1..Len(feed) : feed[i].link # FeedPosts[k].url) =>
                      \A i \in 1..Len(feed) :
                          \/ DateKey(FeedPosts[PostIndex(feed[i])]) > DateKey(FeedPosts[k])
                          \/ /\ DateKey(FeedPosts[PostIndex(feed[i])]) = DateKey(FeedPosts[k])
                             /\ PostIndex(feed[i]) < k

\* eleven posts of distinct valid dates: ten items, the oldest post left out
C12_Witness ==
    /\ RssEnded
    /\ Len(FeedPosts) = FeedLimit + 1
    /\ \A i, j \in 1..Len(FeedPosts) :
           HasValidDate(FeedPosts[i]) /\ (i # j => ValidDate(FeedPosts[i]) # ValidDate(FeedPosts[j]))
    /\ Len(feed) = FeedLimit
    /\ \E k \in 1..Len(FeedPosts) :
           /\ \A i \in 1..Len(feed) : feed[i].link # FeedPosts[k].url
           /\ \A j \in 1..Len(FeedPosts) : ValidDate(FeedPosts[k]) <= ValidDate(FeedPosts[j])

(***************************************************************************)
(* Claims about url.                                                       *)
(***************************************************************************)
\* the path from its first character that is not a slash
WithoutLeadingSlashes(p) ==
    LET first == IF \E i \in 1..Len(p) : p[i] # "/"
                 THEN CHOOSE i \in 1..Len(p) : p[i] # "/" /\ \A j \in 1..(i - 1) : p[j] = "/"
                 ELSE Len(p) + 1
    IN  SubSeq(p, first, Len(p))

\* C14: url does not depend on the leading slashes of the path: with any
\* number of slashes put before the path it returns base_url, "/" and the
\* path without its leading slashes under absolute URLs, "/" and that path
\* otherwise; applying it to the stripped path gives the same.
C14_UrlIgnoresLeadingSlashes ==
    urlPc = "returned" =>
        LET stripped == WithoutLeadingSlashes(urlIn.path)
            expected == (IF urlIn.use_absolute_urls THEN BaseUrl ELSE <<>>) \o <<"/">> \o stripped
        IN  /\ urlOut.slashed = expected
            /\ urlOut.plain = expected
            /\ Url(stripped, UrlConfig(urlIn)) = expected

\* slashes were put before a path that has a name in it, under absolute URLs
C14_Witness ==
    /\ urlPc = "returned"
    /\ urlIn.slashes > 0
    /\ urlIn.use_absolute_urls
    /\ \E i \in 1..Len(urlIn.path) : urlIn.path[i] # "/"
    /\ urlIn.path[1] = "/"
    /\ urlOut.slashed = BaseUrl \o <<"/">> \o WithoutLeadingSlashes(urlIn.path)

(***************************************************************************)
(* Claims about rendered_pages_info and the output directory.              *)
(***************************************************************************)
\* render_all_content has returned to build_command
RenderReturned ==
    pc \in {"copy_static", "copy_assets", "generate_sitemap", "generate_rss_feed", "after_build", "done"}

\* the items in the order render_all_content meets them: the pages in the
\* order of the walk, then the items of the collections
DiscoveryOrder ==
    LET pages == SelectSeq(PageWalk, LAMBDA f : EndsWith(f.name, Html))
        queue == ItemQueue(collections_data)
    IN  [i \in 1..Len(pages) |-> [path |-> FilePath(pages[i]), is_page |-> TRUE, front_matter |-> EmptyDict]]
        \o [i \in 1..Len(queue) |->
               [path |-> queue[i].item.path, is_page |-> FALSE,
                front_matter |-> queue[i].item.front_matter]]

\* the item has a template, and the template is there
TemplateLoaded(d) ==
    IF d.is_page
    THEN tree.tmpl[d.path] # <<"syntax_error">>
    ELSE /\ Truthy(Get(d.front_matter, KLayout))
         /\ Get(d.front_matter, KLayout) = JStr(LayoutName)

\* template.render raised for the item
RenderRaised(d) ==
    TemplateLoaded(d) /\ (IF d.is_page THEN tree.tmpl[d.path] ELSE tree.layout) = <<"render_error">>

\* template.render returned the text of the item
RenderedOk(d) == TemplateLoaded(d) /\ ~RenderRaised(d)

\* C15: rendered_pages_info holds one record for each item that rendered,
\* in the order of discovery, pages first; an item whose template raised in
\* rendering has no record and no output file, and the items after it are
\* rendered all the same.
C15_RecordsAreTheRenderedItems ==
    RenderReturned =>
        /\ [i \in 1..Len(rendered_pages_info) |-> rendered_pages_info[i].source_path]
               = [i \in 1..Len(SelectSeq(DiscoveryOrder, RenderedOk)) |->
                     SelectSeq(DiscoveryOrder, RenderedOk)[i].path]
        /\ \A i \in 1..Len(DiscoveryOrder) :
               RenderRaised(DiscoveryOrder[i]) =>
                   /\ \A f \in output : f.src # DiscoveryOrder[i].path
                   /\ \A k \in 1..Len(rendered_pages_info) :
                          rendered_pages_info[k].source_path # DiscoveryOrder[i].path
        /\ \A k \in 1..Len(rendered_pages_info) :
               \E f \in output : f.path = rendered_pages_info[k].output_path

\* the template of a page raised in rendering, and a page and a collection
\* item discovered after it have their records
C15_Witness ==
    /\ pc = "done"
    /\ \E i, j, k \in 1..Len(DiscoveryOrder) :
           /\ i < j /\ j < k
           /\ RenderRaised(DiscoveryOrder[i])
           /\ DiscoveryOrder[j].is_page /\ ~DiscoveryOrder[k].is_page
           /\ \E m, n \in 1..Len(rendered_pages_info) :
                  /\ m < n
                  /\ rendered_pages_info[m].source_path = DiscoveryOrder[j].path
                  /\ rendered_pages_info[n].source_path = DiscoveryOrder[k].path

(***************************************************************************)
(* Claims about the hooks of the stages after rendering.                   *)
(***************************************************************************)
\* the stages that fire a hook as they start and as they end
PairedStages == {"copy_static", "copy_assets", "generate_sitemap", "generate_rss_feed"}

HookBefore(stage) == "before_" \o stage
HookAfter(stage) == "after_" \o stage

\* C18: in a build that reaches after_build, each before_copy_static,
\* before_copy_assets, before_generate_sitemap and before_generate_rss_feed
\* call is followed by the after_ call of the same stage ahead of after_build,
\* also when the static or assets directory is missing and when there are no
\* posts.
C18_AfterHookFollowsBefore ==
    \A i \in 1..Len(hookCalls) :
        hookCalls[i].name = "after_build" =>
            \A stage \in PairedStages :
                \A j \in 1..(i - 1) :
                    hookCalls[j].name = HookBefore(stage) =>
                        \E k \in (j + 1)..(i - 1) : hookCalls[k].name = HookAfter(stage)

(***************************************************************************)
(* Claims about the URLs and the output paths of collection items.         *)
(***************************************************************************)
\* the collection items load_collections discovered, with their collection
DiscoveredItems == SeqRange(ItemQueue(collections_data))

\* C19: for every collection item that was rendered, the URL it got at
\* discovery is the URL of its record and names the file written for it,
\* both being the output prefix of the collection and the basename of the
\* source file; items in subdirectories included.
C19_DiscoveryUrlIsRecordUrl ==
    RenderReturned =>
        \A k \in 1..Len(rendered_pages_info) :
            \A q \in DiscoveredItems :
                q.item.path = rendered_pages_info[k].source_path =>
                    /\ q.item.url = rendered_pages_info[k].url
                    /\ q.item.url =
                           Url(Join(SettingsOf(config, q.collection).output, Basename(q.item.path)), config)
                    /\ rendered_pages_info[k].output_path
                           = Join(config.output_dir, LStrip(q.item.url, {"/"}))

\* C20: when the build has finished, the file at the output path of every
\* record is the one rendered for the item of the record: no two records
\* share an output path and no later stage has written over the file.
C20_RenderedFilesAreKept ==
    pc = "done" =>
        /\ \A k \in 1..Len(rendered_pages_info) :
               \E f \in output :
                   /\ f.path = rendered_pages_info[k].output_path
                   /\ f.src = rendered_pages_info[k].source_path
        /\ \A k, m \in 1..Len(rendered_pages_info) :
               k # m => rendered_pages_info[k].output_path # rendered_pages_info[m].output_path

(***************************************************************************)
(* Claims about building again.                                            *)
(***************************************************************************)
\* a build has come to its end and one was run before it
BuiltAgain == pc \in {"done", "aborted"} /\ previous # <<>>

C16_OneBuildAtATime ==
    /\ building["main"] + building["watcher"] <= 1
    /\ watcherPc # "not_started" => mainPc \notin {"start", "configured", "initial_build"}
    /\ building["watcher"] > 0 => watcherPc = "building"

\* a rebuild is in progress while events wait in the queue, a request has
\* been served and the interrupt has been caught
C16_Witness ==
    /\ building["watcher"] = 1
    /\ event_queue # <<>>
    /\ requests > 0
    /\ mainPc \in {"interrupted", "httpd_shut", "stopping"}

\* C17: an event handled less than a second after the last call of
\* build_command ended, the initial build or a rebuild of the handler,
\* starts no rebuild; a relevant event handled a second or more after it
\* starts one.
C17_DebouncedAfterLastRebuild ==
    handled.seen =>
        /\ handled.at - handled.since < TicksPerSecond => ~handled.rebuilt
        /\ handled.relevant /\ handled.at - handled.since >= TicksPerSecond => handled.rebuilt

====
